---- MODULE Spec2Model ----
(***************************************************************************)
(* Model of the NvNmos node resource model (src/src/nvnmos.cpp): the two   *)
(* resource stores (IS-04 node resources, IS-05 connection resources), the *)
(* settings object, and the facade operations add/remove sender/receiver   *)
(* and the host-initiated activation, and the IS-05 activation with the    *)
(* activation callback it delivers to the host.                            *)
(*                                                                         *)
(* JSON strings, "auto" and null are modelled as strings; port numbers are *)
(* strings as well so that a field may hold either "auto" or a number.     *)
(* Resource ids are the pairs <<type, internal id>> the UUID is derived    *)
(* from.  An SDP is modelled by the fields the code reads from it.         *)
(***************************************************************************)
EXTENDS Integers, Sequences, FiniteSets, TLC

VARIABLES node_resources, connection_resources, settings, now, ncalls,
          last, pre, last2, pre2, delivered, notified, seen,
          lock, pc, todo, running, server, logged, facade

vars == <<node_resources, connection_resources, settings, now, ncalls,
          last, pre, last2, pre2, delivered, notified, seen,
          lock, pc, todo, running, server, logged, facade>>

\* number of facade calls and activations explored after construction
MaxCalls == 3

----------------------------------------------------------------------------
\* Host environment and inputs

\* web::hosts::experimental::host_interfaces(): a fixed list of interfaces
HostInterfaces ==
    << [name |-> "eth0", addresses |-> {"192.0.2.10"}],
       [name |-> "eth1", addresses |-> {"192.0.2.11"}] >>

\* internal ids the host uses
InternalIds == {"sink-0", "sink-1"}

\* boost::algorithm::to_lower_copy on the grandmaster ids that occur
to_lower_copy(s) ==
    CASE s = "AC-DE-48-23-45-67-01-9F" -> "ac-de-48-23-45-67-01-9f"
      [] s = "ac-de-48-23-45-67-01-9f" -> "ac-de-48-23-45-67-01-9f"
      [] OTHER -> s

\* a=ts-refclk:ptp=IEEE1588-2008:<gmid>[:<domain>]
RefPtp(gmid, colon, domain) ==
    [clock_source |-> "ptp", ptp_version |-> "IEEE1588-2008",
     ptp_server |-> [gmid |-> gmid, colon |-> colon, domain |-> domain]]
\* a=ts-refclk:ptp=IEEE1588-2008:traceable  (empty ptp_server)
RefTraceable ==
    [clock_source |-> "ptp", ptp_version |-> "IEEE1588-2008",
     ptp_server |-> [gmid |-> "", colon |-> FALSE, domain |-> 0]]
\* a=ts-refclk:localmac=<mac>
RefLocalMac ==
    [clock_source |-> "localmac", ptp_version |-> "",
     ptp_server |-> [gmid |-> "", colon |-> FALSE, domain |-> 0]]

\* one media description: c= address, m= port, source-filter, custom attributes
MediaDescription(iface, conn, port, src_port, inactive, refclks) ==
    [connection_address |-> conn, multicast |-> TRUE, port |-> port,
     filter_source |-> "null",
     iface_ip |-> iface, src_port |-> src_port, inactive |-> inactive,
     ts_refclks |-> refclks]

\* the names of the format specific parameters (a=fmtp) of the example SDPs and the
\* custom ones read by impl::get_format_bit_rate and impl::get_transport_bit_rate
VideoFmtp == << "sampling", "depth", "x-nvnmos-transport-bit-rate" >>
JxsvFmtp == << "x-nvnmos-format-bit-rate", "profile", "x-nvnmos-transport-bit-rate" >>
AudioFmtp == << "channel-order" >>

\* the format specific parameters of the SDPs of a media type
FmtpOf(media_type) ==
    CASE media_type = "video/raw" -> VideoFmtp
      [] media_type = "video/jxsv" -> JxsvFmtp
      [] media_type = "audio/L24" -> AudioFmtp
      [] OTHER -> <<>>

SessionDescription(id, media_type, name, session_refclks, mds) ==
    [kind |-> "sdp", internal_id |-> id, media_type |-> media_type,
     session_name |-> name, information |-> "info", group_hint |-> "",
     fmtp |-> FmtpOf(media_type),
     ts_refclks |-> session_refclks, media_descriptions |-> mds]

NoSdp(kind) ==
    [kind |-> kind, internal_id |-> "", media_type |-> "",
     session_name |-> "", information |-> "", group_hint |-> "", fmtp |-> <<>>,
     ts_refclks |-> <<>>, media_descriptions |-> <<>>]

\* a null pointer, the empty string and a text that is no SDP
NullSdp == NoSdp("null")
EmptySdp == NoSdp("empty")
GarbageSdp == NoSdp("garbage")

\* the example video SDP of the driver (src/src/main.c), PTP clock
VideoPtp ==
    SessionDescription("sink-0", "video/raw", "video", <<>>,
        << MediaDescription("192.0.2.10", "233.252.0.0", "5020", "5004", FALSE,
               << RefPtp("AC-DE-48-23-45-67-01-9F", TRUE, 42), RefTraceable >>) >>)
\* a two-legged video SDP for the same internal id, session-level localmac which
\* the first leg inherits, a PTP grandmaster on the second leg
VideoDual ==
    SessionDescription("sink-0", "video/jxsv", "dual", << RefLocalMac >>,
        << MediaDescription("192.0.2.10", "233.252.0.2", "5020", "none", FALSE, <<>>),
           MediaDescription("192.0.2.11", "233.252.0.3", "5020", "none", TRUE,
               << RefPtp("08-00-11-ff-fe-21-e1-b0", FALSE, 0) >>) >>)
\* the example audio SDP, no ts-refclk, no x-nvnmos-src-port
AudioPlain ==
    SessionDescription("sink-1", "audio/L24", "audio", <<>>,
        << MediaDescription("192.0.2.11", "233.252.0.1", "5030", "none", FALSE, <<>>) >>)
\* a media type get_format does not know
Unsupported ==
    SessionDescription("sink-1", "video/H264", "h264", <<>>,
        << MediaDescription("192.0.2.10", "233.252.0.1", "5030", "none", FALSE, <<>>) >>)
\* an interface address no host interface has
NoInterface ==
    SessionDescription("sink-1", "audio/L24", "audio", <<>>,
        << MediaDescription("198.51.100.1", "233.252.0.1", "5030", "none", FALSE, <<>>) >>)

GoodSdps == {VideoPtp, VideoDual, AudioPlain}
AddSdps == GoodSdps \cup {Unsupported, NoInterface, GarbageSdp, NullSdp}
ActivateSdps == GoodSdps \cup {GarbageSdp, EmptySdp}

----------------------------------------------------------------------------
\* Pure helpers

\* impl::make_id: the name the repeatable UUID is derived from
make_id(type, internal_id) == <<type, internal_id>>

node_id == make_id("node", "")
device_id == make_id("device", "")

\* nmos::make_repeatable_id: the name-based (version 5) UUID of a name in a namespace.
\* A UUID is written as the namespace it starts from followed by the names hashed
\* into it in turn, so that two UUIDs are equal exactly when they were derived from
\* the same namespace by the same names.
make_repeatable_id(namespace, name) == Append(namespace, name)

seed_namespace_id == << "18daddcf-a234-4f59-808a-dbf6a42e17bb" >>

\* server::make_settings: the seed id of the configured seed string
make_settings(config) ==
    [seed_id |-> make_repeatable_id(seed_namespace_id, config.seed)]

\* variant: the name is hashed in the fixed namespace whatever the seed
make_uuid_fixed_namespace(seed_id, id) ==
    Append(<< "18daddcf-a234-4f59-808a-dbf6a42e17bb" >>,
           "/x-nmos/node/" \o id[1] \o "/" \o id[2])

\* impl::make_id: the UUID of the resource the store keeps under the key id
make_uuid(seed_id, id) ==
    make_repeatable_id(seed_id, "/x-nmos/node/" \o id[1] \o "/" \o id[2])

\* impl::get_format; "error" stands for the exception
get_format(media_type) ==
    CASE media_type = "video/raw" -> "video"
      [] media_type = "video/jxsv" -> "video"
      [] media_type = "audio/L24" -> "audio"
      [] media_type = "audio/L16" -> "audio"
      [] media_type = "video/smpte291" -> "data"
      [] media_type = "video/SMPTE2022-6" -> "mux"
      [] OTHER -> "error"

\* impl::find_interface: the name of the first interface with the address, or "none"
find_interface(interfaces, address) ==
    LET found == {i \in 1..Len(interfaces) : address \in interfaces[i].addresses}
    IN  IF found = {} THEN "none"
        ELSE interfaces[CHOOSE i \in found : \A j \in found : i <= j].name

\* std::hash<utility::string_t> of id + '/' + leg, a 64-bit value written as its
\* eight octets, the most significant first; the same for equal strings
std_hash(id, leg) ==
    CASE id[2] = "sink-0" /\ leg = 0 -> << 81, 7, 190, 3, 17, 10, 0, 10 >>
      [] id[2] = "sink-0" /\ leg = 1 -> << 12, 0, 255, 64, 232, 11, 1, 11 >>
      [] id[2] = "sink-1" /\ leg = 0 -> << 0, 33, 5, 148, 255, 20, 0, 20 >>
      [] OTHER -> << 200, 1, 77, 9, 0, 21, 1, 21 >>

\* boost::asio::ip::address_v4(uint32_t(h)).to_bytes(): the low 32 bits in network
\* byte order
to_bytes(h) == SubSeq(h, 5, 8)

\* b | 1 of an octet
or_1(b) == IF b % 2 = 0 THEN b + 1 ELSE b

\* variant: the third octet is left as hashed
ssm_bytes_unforced(h) == [to_bytes(h) EXCEPT ![1] = 232]

\* a[0] = 232; a[2] |= 1 on the octets of the hash
ssm_bytes(h) == [to_bytes(h) EXCEPT ![1] = 232, ![3] = or_1(@)]

\* boost::asio::ip::address_v4(a).to_string()
to_string(a) ==
    ToString(a[1]) \o "." \o ToString(a[2]) \o "." \o ToString(a[3]) \o "." \o ToString(a[4])

\* impl::make_source_specific_multicast_address_v4: a repeatable address per (id, leg)
make_source_specific_multicast_address_v4(id, leg) ==
    to_string(ssm_bytes(std_hash(id, leg)))

\* utility::istringstreamed(text, 0) of the x-nvnmos-src-port value: the integer the
\* text starts with, 0 if it starts with none; integers are written as their decimal
\* text
istringstreamed(text) ==
    CASE text = "5004" -> "5004"
      [] text = "05004" -> "5004"
      [] text = "0" -> "0"
      [] OTHER -> "0"

\* impl::get_session_description_transport_params, one element per media description
sdp_transport_param(type, md) ==
    LET multicast_ip == IF md.multicast THEN md.connection_address ELSE "null"
        lib_interface_ip == IF md.multicast THEN "auto" ELSE md.connection_address
        rtp_enabled == ~md.inactive
    IN  IF type = "sender"
        THEN [source_ip |-> IF md.iface_ip # "none" THEN md.iface_ip ELSE md.filter_source,
              destination_ip |-> IF multicast_ip # "null" THEN multicast_ip ELSE lib_interface_ip,
              source_port |-> IF md.src_port # "none" THEN istringstreamed(md.src_port)
                              ELSE "auto",
              destination_port |-> md.port,
              rtp_enabled |-> rtp_enabled]
        ELSE [source_ip |-> md.filter_source,
              multicast_ip |-> multicast_ip,
              interface_ip |-> IF md.iface_ip # "none" THEN md.iface_ip ELSE lib_interface_ip,
              destination_port |-> md.port,
              rtp_enabled |-> rtp_enabled]

get_session_description_transport_params(type, sdp) ==
    [leg \in 1..Len(sdp.media_descriptions) |->
        sdp_transport_param(type, sdp.media_descriptions[leg])]

\* impl::get_session_description_ts_refclks: media level, else session level
get_session_description_ts_refclks(sdp) ==
    [leg \in 1..Len(sdp.media_descriptions) |->
        IF sdp.media_descriptions[leg].ts_refclks # <<>>
        THEN sdp.media_descriptions[leg].ts_refclks
        ELSE sdp.ts_refclks]

make_internal_clock(name) == [name |-> name, ref_type |-> "internal"]
make_ptp_clock(name, traceable, gmid, locked) ==
    [name |-> name, ref_type |-> "ptp", version |-> "IEEE1588-2008",
     traceable |-> traceable, gmid |-> gmid, locked |-> locked]

IsPtpGm(r) == r.clock_source = "ptp" /\ r.ptp_version = "IEEE1588-2008" /\ r.ptp_server.gmid # ""
IsPtpTraceable(r) == r.clock_source = "ptp" /\ r.ptp_version = "IEEE1588-2008" /\ r.ptp_server.gmid = ""

\* impl::make_node_clock: the clock and the (possibly updated) PTP domain
make_node_clock(name, ts_refclks, ptp_domain) ==
    IF ts_refclks = <<>>
    THEN [clock |-> make_internal_clock(name), ptp_domain |-> ptp_domain]
    ELSE
      LET first == ts_refclks[1]
          gms == {i \in 1..Len(first) : IsPtpGm(first[i])}
          traceable == \E i \in 1..Len(first) : IsPtpTraceable(first[i])
      IN  IF gms = {}
          THEN IF ~traceable
               THEN [clock |-> make_internal_clock(name), ptp_domain |-> ptp_domain]
               ELSE [clock |-> make_ptp_clock(name, TRUE, "ff-ff-ff-ff-ff-ff-ff-ff", TRUE),
                     ptp_domain |-> ptp_domain]
          ELSE LET ref == first[CHOOSE i \in gms : \A j \in gms : i <= j]
               IN  [clock |-> make_ptp_clock(name, traceable, to_lower_copy(ref.ptp_server.gmid), TRUE),
                    ptp_domain |-> IF ref.ptp_server.colon THEN ref.ptp_server.domain ELSE ptp_domain]

----------------------------------------------------------------------------
\* Resource stores (nmos::resources): a map from id to resource

Put(f, k, v) == [x \in DOMAIN f \cup {k} |-> IF x = k THEN v ELSE f[x]]

EmptyStore == [x \in {} |-> 0]

\* variant: an insert that overwrites the resource it then reports as refused
insert_resource_replacing(resources, id, resource) ==
    [second |-> id \notin DOMAIN resources, resources |-> Put(resources, id, resource)]

\* nmos::insert_resource: inserting an id that is present is refused
insert_resource(resources, id, resource) ==
    IF id \in DOMAIN resources
    THEN [second |-> FALSE, resources |-> resources]
    ELSE [second |-> TRUE, resources |-> Put(resources, id, resource)]

\* nmos::erase_resource: no effect if the id is absent
erase_resource(resources, id) ==
    [x \in DOMAIN resources \ {id} |-> resources[x]]

\* nmos::find_resource by id and type
has_resource(resources, id, type) ==
    id \in DOMAIN resources /\ resources[id].type = type

IdsOfType(resources, type) == {id \in DOMAIN resources : resources[id].type = type}

----------------------------------------------------------------------------
\* Resource constructors (the nmos::make_... calls of add_sender/add_receiver)

make_node(t) ==
    [type |-> "node", version |-> t,
     data |-> [interfaces |-> <<>>, clocks |-> << make_internal_clock("clk0") >>]]

make_device(t) ==
    [type |-> "device", version |-> t,
     data |-> [node_id |-> node_id, senders |-> <<>>, receivers |-> <<>>]]

make_source(device, format, t) ==
    [type |-> "source", version |-> t,
     data |-> [device_id |-> device, format |-> format, clock_name |-> "clk0"]]

make_flow(source_id, device, format, media_type, t) ==
    [type |-> "flow", version |-> t,
     data |-> [source_id |-> source_id, device_id |-> device,
               format |-> format, media_type |-> media_type]]

make_tags(internal_id, group_hint) ==
    [internal_id |-> << internal_id >>,
     group_hint |-> IF group_hint # "" THEN << group_hint >> ELSE <<>>]

make_sender(flow_id, device, interface_names, sdp, t) ==
    [type |-> "sender", version |-> t,
     data |-> [flow_id |-> flow_id, device_id |-> device, transport |-> "rtp",
               interface_bindings |-> interface_names,
               label |-> sdp.session_name, description |-> sdp.information,
               tags |-> make_tags(sdp.internal_id, sdp.group_hint),
               subscription |-> [connected_id |-> "null", active |-> FALSE]]]

make_receiver(device, interface_names, format, sdp, t) ==
    [type |-> "receiver", version |-> t,
     data |-> [device_id |-> device, transport |-> "rtp",
               interface_bindings |-> interface_names,
               format |-> format, media_types |-> << sdp.media_type >>,
               label |-> sdp.session_name, description |-> sdp.information,
               tags |-> make_tags(sdp.internal_id, sdp.group_hint),
               subscription |-> [connected_id |-> "null", active |-> FALSE]]]

\* nmos::make_activation
make_activation ==
    [mode |-> "null", requested_time |-> "null", activation_time |-> "null"]

AutoSenderLeg ==
    [source_ip |-> "auto", destination_ip |-> "auto", source_port |-> "auto",
     destination_port |-> "auto", rtp_enabled |-> TRUE]
AutoReceiverLeg ==
    [source_ip |-> "null", multicast_ip |-> "null", interface_ip |-> "auto",
     destination_port |-> "auto", rtp_enabled |-> TRUE]

NoTransportFile == [data |-> NullSdp, type |-> "null"]

\* the sender's /transportfile before the first activation
NoTransportfile ==
    [present |-> FALSE, session_version |-> 0, media_type |-> "",
     clock |-> make_internal_clock("clk0"), ptp_domain |-> 0, transport_params |-> <<>>,
     fmtp |-> <<>>, session_attributes |-> <<>>, media_attributes |-> <<>>]

make_endpoint(legs) ==
    [connected_id |-> "null", master_enable |-> FALSE, activation |-> make_activation,
     transport_params |-> legs, transport_file |-> NoTransportFile]

\* nmos::make_connection_rtp_sender / nmos::make_connection_rtp_receiver:
\* one leg, or two when smpte2022_7
make_connection_rtp(type, smpte2022_7, t) ==
    LET leg == IF type = "sender" THEN AutoSenderLeg ELSE AutoReceiverLeg
        legs == IF smpte2022_7 THEN << leg, leg >> ELSE << leg >>
    IN  [type |-> type, version |-> t,
         data |-> [endpoint_constraints |-> [l \in 1..Len(legs) |-> [enum |-> <<>>]],
                   endpoint_staged |-> make_endpoint(legs),
                   endpoint_active |-> make_endpoint(legs),
                   endpoint_transportfile |-> NoTransportfile]]

\* variant: the value is replaced whether it is "auto" or not
Resolve_always(v, r) == r

\* make_node_implementation_auto_resolver followed by nmos::resolve_rtp_auto
Resolve(v, r) == IF v = "auto" THEN r ELSE v

resolve_auto(id, type, constraints, transport_params) ==
    [leg \in 1..Len(transport_params) |->
        LET tp == transport_params[leg]
        IN  IF type = "sender"
            THEN [tp EXCEPT
                    !.source_ip = IF leg <= Len(constraints)
                                  THEN Resolve(@, constraints[leg].enum[1]) ELSE @,
                    !.destination_ip = IF leg <= Len(constraints)
                                  THEN Resolve(@, make_source_specific_multicast_address_v4(id, leg - 1))
                                  ELSE @,
                    !.source_port = Resolve(@, "5004"),
                    !.destination_port = Resolve(@, "5004")]
            ELSE [tp EXCEPT
                    !.interface_ip = IF leg <= Len(constraints)
                                  THEN Resolve(@, constraints[leg].enum[1]) ELSE @,
                    !.destination_port = Resolve(@, "5004")]]

----------------------------------------------------------------------------
\* Node maintenance

RangeOf(seq) == {seq[i] : i \in 1..Len(seq)}

\* the interface names bound by any sender or receiver in the store
BoundInterfaceNames(resources) ==
    UNION {RangeOf(resources[id].data.interface_bindings) :
              id \in IdsOfType(resources, "sender") \cup IdsOfType(resources, "receiver")}

\* variant: only the bindings of the senders are collected
update_node_interfaces_senders_only(resources, host_interfaces, t) ==
    LET names == UNION {{resources[id].data.interface_bindings[l] :
                            l \in 1..Len(resources[id].data.interface_bindings)} :
                        id \in {x \in DOMAIN resources : resources[x].type = "sender"}}
        bound == SelectSeq(host_interfaces, LAMBDA i : i.name \in names)
        interfaces == [k \in 1..Len(bound) |-> [name |-> bound[k].name]]
    IN  IF interfaces # resources[<<"node", "">>].data.interfaces
        THEN [resources EXCEPT ![<<"node", "">>].version = t,
                               ![<<"node", "">>].data.interfaces = interfaces]
        ELSE resources

\* impl::update_node_interfaces: modify the node only if the array differs
update_node_interfaces(resources, host_interfaces, t) ==
    LET names == BoundInterfaceNames(resources)
        bound == SelectSeq(host_interfaces, LAMBDA i : i.name \in names)
        interfaces == [k \in 1..Len(bound) |-> [name |-> bound[k].name]]
    IN  IF interfaces # resources[node_id].data.interfaces
        THEN [resources EXCEPT ![node_id].version = t,
                               ![node_id].data.interfaces = interfaces]
        ELSE resources

\* variant: the node is modified whether or not the clock differs
update_node_clock_always(resources, clock, t) ==
    LET clocks == resources[node_id].data.clocks
        k == CHOOSE i \in 1..Len(clocks) : clocks[i].name = clock.name
    IN  [resources EXCEPT ![node_id].version = t,
                          ![node_id].data.clocks = [clocks EXCEPT ![k] = clock]]

\* impl::update_node_clock: modify the node only if the clock of that name differs
update_node_clock(resources, clock, t) ==
    LET clocks == resources[node_id].data.clocks
        k == CHOOSE i \in 1..Len(clocks) : clocks[i].name = clock.name
    IN  IF clock # clocks[k]
        THEN [resources EXCEPT ![node_id].version = t,
                               ![node_id].data.clocks = [clocks EXCEPT ![k] = clock]]
        ELSE resources

\* settings.clocks[name].ptp_domain_number, 0 when not yet recorded
ptp_domain_number(st_settings, name) ==
    IF name \in DOMAIN st_settings.clocks
    THEN st_settings.clocks[name].ptp_domain_number ELSE 0

\* the rejected call: the stores as they are, and failure
Failed(st) == [ok |-> FALSE, node_resources |-> st.node_resources,
               connection_resources |-> st.connection_resources,
               settings |-> st.settings]

Done(nr, cr, se) == [ok |-> TRUE, node_resources |-> nr,
                     connection_resources |-> cr, settings |-> se]

\* node_implementation_init_: node, device and empty settings entries
node_implementation_init_(t) ==
    LET n1 == insert_resource(EmptyStore, node_id, make_node(t)).resources
        n2 == insert_resource(n1, device_id, make_device(t)).resources
    IN  Done(n2, EmptyStore,
             [senders |-> EmptyStore, receivers |-> EmptyStore, clocks |-> EmptyStore])

\* variant: the array is extended and the device keeps its version
device_push_back_unversioned(resources, field, id, t) ==
    IF field = "senders"
    THEN [resources EXCEPT ![<<"device", "">>].data.senders = Append(@, id)]
    ELSE [resources EXCEPT ![<<"device", "">>].data.receivers = Append(@, id)]

\* push the id onto the device's deprecated senders/receivers array
device_push_back(resources, field, id, t) ==
    IF field = "senders"
    THEN [resources EXCEPT ![device_id].version = t,
                           ![device_id].data.senders = Append(@, id)]
    ELSE [resources EXCEPT ![device_id].version = t,
                           ![device_id].data.receivers = Append(@, id)]

\* the interface name of every leg, "none" where no host interface matches
interface_names_of(type, transport_params, host_interfaces) ==
    [leg \in 1..Len(transport_params) |->
        find_interface(host_interfaces,
                       IF type = "sender" THEN transport_params[leg].source_ip
                       ELSE transport_params[leg].interface_ip)]

\* the connection resource with its constraints and resolved active endpoint
make_connection(id, type, transport_params, t) ==
    LET c0 == make_connection_rtp(type, Len(transport_params) > 1, t)
        constraints == [leg \in 1..Len(c0.data.endpoint_constraints) |->
                          [enum |-> << IF type = "sender"
                                       THEN transport_params[leg].source_ip
                                       ELSE transport_params[leg].interface_ip >>]]
    IN  [c0 EXCEPT !.data.endpoint_constraints = constraints,
                   !.data.endpoint_active.transport_params =
                       resolve_auto(id, type, constraints, @)]

\* node_implementation_add_sender_ (server::add_sender rejects a null SDP first)
add_sender_(st, sdp, host_interfaces, t) ==
    IF sdp.kind # "sdp" \/ Len(sdp.media_descriptions) = 0 THEN Failed(st)
    ELSE
    LET transport_params == get_session_description_transport_params("sender", sdp)
        ts_refclks == get_session_description_ts_refclks(sdp)
        source_id == make_id("source", sdp.internal_id)
        flow_id == make_id("flow", sdp.internal_id)
        sender_id == make_id("sender", sdp.internal_id)
        format == get_format(sdp.media_type)
        interface_names == interface_names_of("sender", transport_params, host_interfaces)
    IN
    IF format = "error" \/ "none" \in RangeOf(interface_names) THEN Failed(st)
    ELSE
    LET source == make_source(device_id, format, t)
        flow == make_flow(source_id, device_id, format, sdp.media_type, t)
        sender == make_sender(flow_id, device_id, interface_names, sdp, t)
        connection_sender == make_connection(sender_id, "sender", transport_params, t)
        i1 == insert_resource(st.node_resources, source_id, source)
        i2 == insert_resource(i1.resources, flow_id, flow)
        i3 == insert_resource(i2.resources, sender_id, sender)
        i4 == insert_resource(st.connection_resources, sender_id, connection_sender)
    IN
    IF ~i1.second THEN [Failed(st) EXCEPT !.node_resources = i1.resources]
    ELSE IF ~i2.second THEN [Failed(st) EXCEPT !.node_resources = i2.resources]
    ELSE IF ~i3.second THEN [Failed(st) EXCEPT !.node_resources = i3.resources]
    ELSE IF ~i4.second THEN [Failed(st) EXCEPT !.node_resources = i3.resources,
                                                !.connection_resources = i4.resources]
    ELSE
    LET n1 == device_push_back(i3.resources, "senders", sender_id, t)
        n2 == update_node_interfaces(n1, host_interfaces, t)
        c == make_node_clock("clk0", ts_refclks, ptp_domain_number(st.settings, "clk0"))
        n3 == update_node_clock(n2, c.clock, t)
    IN  Done(n3, i4.resources,
             [st.settings EXCEPT
                 !.clocks = Put(@, "clk0", [ptp_domain_number |-> c.ptp_domain]),
                 !.senders = Put(@, sender_id, sdp)])

\* node_implementation_add_receiver_ (server::add_receiver rejects a null SDP first)
add_receiver_(st, sdp, host_interfaces, t) ==
    IF sdp.kind # "sdp" \/ Len(sdp.media_descriptions) = 0 THEN Failed(st)
    ELSE
    LET transport_params == get_session_description_transport_params("receiver", sdp)
        receiver_id == make_id("receiver", sdp.internal_id)
        format == get_format(sdp.media_type)
        interface_names == interface_names_of("receiver", transport_params, host_interfaces)
    IN
    IF format = "error" \/ "none" \in RangeOf(interface_names) THEN Failed(st)
    ELSE
    LET receiver == make_receiver(device_id, interface_names, format, sdp, t)
        connection_receiver == make_connection(receiver_id, "receiver", transport_params, t)
        i1 == insert_resource(st.node_resources, receiver_id, receiver)
        i2 == insert_resource(st.connection_resources, receiver_id, connection_receiver)
    IN
    IF ~i1.second THEN [Failed(st) EXCEPT !.node_resources = i1.resources]
    ELSE IF ~i2.second THEN [Failed(st) EXCEPT !.node_resources = i1.resources,
                                                !.connection_resources = i2.resources]
    ELSE
    LET n1 == device_push_back(i1.resources, "receivers", receiver_id, t)
        n2 == update_node_interfaces(n1, host_interfaces, t)
    IN  Done(n2, i2.resources,
             [st.settings EXCEPT !.receivers = Put(@, receiver_id, sdp)])

----------------------------------------------------------------------------
\* Removal

\* variant: the cascade stops after the flow, the source stays
erase_bundle_keeps_source(resources, id) ==
    LET resource == resources[id]
        r1 == [x \in DOMAIN resources \ {id} |-> resources[x]]
    IN  IF resource.type = "sender"
        THEN [x \in DOMAIN r1 \ {resource.data.flow_id} |-> r1[x]] ELSE r1

\* variant: the cascade skips the flow, sender and source are erased
erase_bundle_keeps_flow(resources, id) ==
    LET resource == resources[id]
        r1 == [x \in DOMAIN resources \ {id} |-> resources[x]]
    IN  IF resource.type = "sender"
           /\ resource.data.flow_id \in DOMAIN resources
        THEN [x \in DOMAIN r1 \ {resources[resource.data.flow_id].data.source_id} |-> r1[x]]
        ELSE r1

\* the sender, then its flow, then the flow's source; a receiver alone
erase_bundle(resources, id) ==
    LET resource == resources[id]
        is_sender == resource.type = "sender"
        flow_id == resource.data.flow_id
        has_flow == is_sender /\ has_resource(resources, flow_id, "flow")
        r1 == erase_resource(resources, id)
        r2 == IF is_sender THEN erase_resource(r1, flow_id) ELSE r1
    IN  IF has_flow THEN erase_resource(r2, resources[flow_id].data.source_id) ELSE r2

\* variant: the reference is looked up but not erased
erase_ref_keeps(refs, id) == refs

\* the array without the first element equal to id
erase_ref(refs, id) ==
    LET found == {i \in 1..Len(refs) : refs[i] = id}
    IN  IF found = {} THEN refs
        ELSE LET k == CHOOSE i \in found : \A j \in found : i <= j
             IN  SubSeq(refs, 1, k - 1) \o SubSeq(refs, k + 1, Len(refs))

\* variant: a device left without senders and receivers is erased with the last one
device_erase_with_device(resources, type, id, t) ==
    LET device == resources[<<"device", "">>]
        refs == IF type = "sender" THEN device.data.senders ELSE device.data.receivers
        others == IF type = "sender" THEN device.data.receivers ELSE device.data.senders
    IN  IF id \notin {refs[i] : i \in 1..Len(refs)} THEN resources
        ELSE IF Len(refs) = 1 /\ others = <<>>
        THEN [x \in DOMAIN resources \ {<<"device", "">>} |-> resources[x]]
        ELSE IF type = "sender"
        THEN [resources EXCEPT ![<<"device", "">>].version = t,
                               ![<<"device", "">>].data.senders = Tail(refs)]
        ELSE [resources EXCEPT ![<<"device", "">>].version = t,
                               ![<<"device", "">>].data.receivers = Tail(refs)]

\* update the device's deprecated array; the version changes only if the id was listed
device_erase(resources, type, id, t) ==
    LET device == resources[device_id]
        refs == IF type = "sender" THEN device.data.senders ELSE device.data.receivers
    IN  IF id \notin RangeOf(refs) THEN resources
        ELSE IF type = "sender"
        THEN [resources EXCEPT ![device_id].version = t,
                               ![device_id].data.senders = erase_ref(refs, id)]
        ELSE [resources EXCEPT ![device_id].version = t,
                               ![device_id].data.receivers = erase_ref(refs, id)]

\* variant: the configuration stays in the settings
erase_config_keeps(configs, id) == configs

\* if (configs.has_field(id)) configs.erase(id)
erase_config(configs, id) ==
    IF id \in DOMAIN configs THEN [x \in DOMAIN configs \ {id} |-> configs[x]] ELSE configs

\* variant: the internal id is looked up among the senders and the receivers alike
remove_connection_either(st, type, internal_id, host_interfaces, t) ==
    LET same == <<type, internal_id>>
        other == <<IF type = "sender" THEN "receiver" ELSE "sender", internal_id>>
        id == IF same \in DOMAIN st.node_resources THEN same ELSE other
    IN  IF id \notin DOMAIN st.node_resources THEN Failed(st)
        ELSE
        LET cr == erase_resource(st.connection_resources, id)
            n1 == erase_bundle(st.node_resources, id)
            n2 == device_erase(n1, id[1], id, t)
            n3 == update_node_interfaces(n2, host_interfaces, t)
        IN  Done(n3, cr,
                 [st.settings EXCEPT !.senders = erase_config(@, id),
                                     !.receivers = erase_config(@, id)])

\* node_implementation_remove_connection_
remove_connection_(st, type, internal_id, host_interfaces, t) ==
    LET id == make_id(type, internal_id)
    IN  IF ~has_resource(st.node_resources, id, type) THEN Failed(st)
        ELSE
        LET cr == erase_resource(st.connection_resources, id)
            n1 == erase_bundle(st.node_resources, id)
            n2 == device_erase(n1, type, id, t)
            n3 == update_node_interfaces(n2, host_interfaces, t)
        IN  Done(n3, cr,
                 IF type = "sender"
                 THEN [st.settings EXCEPT !.senders = erase_config(@, id)]
                 ELSE [st.settings EXCEPT !.receivers = erase_config(@, id)])

----------------------------------------------------------------------------
\* Host-initiated activation

\* boost::algorithm::starts_with(name, "x-nvnmos-") on the names that occur
starts_with_x_nvnmos(name) ==
    name \in {"x-nvnmos-id", "x-nvnmos-group-hint", "x-nvnmos-iface-ip",
              "x-nvnmos-src-port", "x-nvnmos-format-bit-rate",
              "x-nvnmos-transport-bit-rate"}

\* variant: the format specific parameters are passed on as they are
remove_custom_fmtp_keeps(fmtp) == fmtp

\* "remove custom nvnmos parameters" from sdp_params.fmtp
remove_custom_fmtp(fmtp) ==
    SelectSeq(fmtp, LAMBDA name : ~starts_with_x_nvnmos(name))

\* nmos::make_session_description: the SDP made of the session parameters and the
\* transport parameters carries the format specific parameters it is given and
\* the attributes of the standards, a=inactive on a leg that is not enabled
nmos_make_session_description(sdp_params, transport_params) ==
    [fmtp |-> sdp_params.fmtp,
     session_attributes |-> <<>>,
     media_attributes |->
         [leg \in 1..Len(transport_params) |->
             << "source-filter", "rtpmap", "fmtp", "ts-refclk", "mediaclk" >> \o
             (IF transport_params[leg].rtp_enabled THEN <<>> ELSE << "inactive" >>)]]

\* make_node_implementation_transportfile_setter: the sender's /transportfile
\* rebuilt from the SDP in the settings, the node clock and the active legs
set_transportfile(resources, st_settings, sender_id, active, transportfile, t) ==
    IF sender_id \notin DOMAIN st_settings.senders THEN transportfile
    ELSE LET sdp_params == [fmtp |-> remove_custom_fmtp(st_settings.senders[sender_id].fmtp)]
             session_description ==
                 nmos_make_session_description(sdp_params, active.transport_params)
         IN  [present |-> TRUE,
              session_version |-> t,
              media_type |-> st_settings.senders[sender_id].media_type,
              clock |-> resources[node_id].data.clocks[1],
              ptp_domain |-> ptp_domain_number(st_settings, "clk0"),
              transport_params |-> active.transport_params,
              fmtp |-> session_description.fmtp,
              session_attributes |-> session_description.session_attributes,
              media_attributes |-> session_description.media_attributes]

\* variant: master_enable is set whatever the SDP
active_before_params_enabling(active, type, sdp) ==
    [active EXCEPT
        !.connected_id = "null",
        !.master_enable = TRUE,
        !.activation = [mode |-> "null", requested_time |-> "null", activation_time |-> "null"],
        !.transport_file = IF sdp.kind # "empty" /\ type = "receiver"
                           THEN [data |-> sdp, type |-> "application/sdp"] ELSE @]

\* the writes to /active that precede the extraction of the transport parameters
active_before_params(active, type, sdp) ==
    [active EXCEPT
        !.connected_id = "null",
        !.master_enable = (sdp.kind # "empty"),
        !.activation = make_activation,
        !.transport_file = IF sdp.kind # "empty" /\ type = "receiver"
                           THEN [data |-> sdp, type |-> "application/sdp"] ELSE @]

\* variant: a deactivation puts the legs back to "auto"
active_with_params_resetting(active, type, sdp) ==
    IF sdp.kind # "empty"
    THEN [active EXCEPT !.transport_params = get_session_description_transport_params(type, sdp)]
    ELSE [active EXCEPT !.transport_params =
              [l \in 1..Len(@) |-> IF type = "sender" THEN AutoSenderLeg ELSE AutoReceiverLeg]]

\* the transport parameters of a non-empty SDP replace the active ones
active_with_params(active, type, sdp) ==
    IF sdp.kind # "empty"
    THEN [active EXCEPT !.transport_params = get_session_description_transport_params(type, sdp)]
    ELSE active

\* variant: the subscription is changed and the version is left alone
set_resource_subscription_unversioned(resources, id, active, t) ==
    [resources EXCEPT ![id].data.subscription = [connected_id |-> "null", active |-> active]]

\* variant: the interface bindings are cleared along with the subscription
set_resource_subscription_rebinding(resources, id, active, t) ==
    [resources EXCEPT ![id].version = t,
                      ![id].data.interface_bindings = <<>>,
                      ![id].data.subscription = [connected_id |-> "null", active |-> active]]

\* nmos::set_resource_subscription
set_resource_subscription(resources, id, active, t) ==
    [resources EXCEPT ![id].version = t,
                      ![id].data.subscription = [connected_id |-> "null", active |-> active]]

\* variant: the clock is also derived from the SDP given for a receiver
derives_clock_any(type, sdp) == sdp.kind # "empty"

\* if (nmos::types::sender == id_type.second && !sdp.empty()): the node clock is
\* derived from the SDP
derives_clock(type, sdp) == type = "sender" /\ sdp.kind # "empty"

\* variant: the activation is also staged
set_endpoint_active_staging(resources, id, active, t) ==
    [resources EXCEPT ![id].version = t,
                      ![id].data.endpoint_active = active,
                      ![id].data.endpoint_staged.master_enable = active.master_enable,
                      ![id].data.endpoint_staged.transport_params = active.transport_params]

\* the modifier of the connection resource writes its version and its /active endpoint
set_endpoint_active(resources, id, active, t) ==
    [resources EXCEPT ![id].version = t,
                      ![id].data.endpoint_active = active]

find_sender_or_receiver_last(is_sender, is_receiver) ==
    IF is_receiver THEN "receiver" ELSE "sender"

\* the resource an internal id names: the sender of that id is looked up first and
\* the receiver only when there is no such sender
find_sender_or_receiver(is_sender, is_receiver) ==
    IF is_sender THEN "sender" ELSE "receiver"

\* node_implementation_activate_rtp_connection_; the facade passes "" for a null SDP.
\* The modifier given to nmos::modify_resource throws when the SDP does not parse:
\* what it wrote before is kept and the exception leaves the operation.
activate_rtp_connection_(st, internal_id, sdp, t) ==
    LET sender_id == make_id("sender", internal_id)
        receiver_id == make_id("receiver", internal_id)
        is_sender == has_resource(st.node_resources, sender_id, "sender")
        is_receiver == has_resource(st.node_resources, receiver_id, "receiver")
        type == find_sender_or_receiver(is_sender, is_receiver)
        id == IF type = "sender" THEN sender_id ELSE receiver_id
    IN
    IF ~is_sender /\ ~is_receiver
    THEN Done(st.node_resources, st.connection_resources, st.settings)
    ELSE IF is_sender /\ sdp.kind = "garbage" THEN Failed(st)
    ELSE
    LET c == make_node_clock("clk0", get_session_description_ts_refclks(sdp),
                             ptp_domain_number(st.settings, "clk0"))
        clocked == derives_clock(type, sdp)
        n1 == IF clocked THEN update_node_clock(st.node_resources, c.clock, t)
              ELSE st.node_resources
        se == IF clocked
              THEN [st.settings EXCEPT
                       !.clocks = Put(@, "clk0", [ptp_domain_number |-> c.ptp_domain])]
              ELSE st.settings
        conn == st.connection_resources[id]
        a1 == active_before_params(conn.data.endpoint_active, type, sdp)
    IN
    IF sdp.kind = "garbage"
    THEN [ok |-> FALSE, node_resources |-> n1, settings |-> se,
          connection_resources |-> set_endpoint_active(st.connection_resources, id, a1, t)]
    ELSE
    LET a2 == active_with_params(a1, type, sdp)
        tf == IF is_sender
              THEN set_transportfile(n1, se, id, a2, conn.data.endpoint_transportfile, t)
              ELSE conn.data.endpoint_transportfile
        cr == [set_endpoint_active(st.connection_resources, id, a2, t)
                  EXCEPT ![id].data.endpoint_transportfile = tf]
    IN  Done(set_resource_subscription(n1, id, sdp.kind # "empty", t), cr, se)

----------------------------------------------------------------------------
\* IS-05 activation and the activation callback

\* one invocation of the host's nmos_connection_rtp_activation_callback
Callback(id, sdp) == [id |-> id, sdp |-> sdp]

\* the null pointer the host receives on deactivation
NullCallbackSdp ==
    [kind |-> "null", internal_id |-> "", group_hint |-> "", information |-> "",
     media_type |-> "", media_descriptions |-> <<>>]

\* impl::get_internal_id, impl::get_group_hint: the first value of the tag, or ""
get_tag(values) == IF values = <<>> THEN "" ELSE values[1]

\* variant: the a=inactive line is put on the legs that are enabled
internal_media_description_inverted(type, tp) ==
    [iface_ip |-> IF type = "receiver" THEN tp.interface_ip ELSE tp.source_ip,
     src_port |-> IF type = "sender" /\ tp.source_port # "auto" THEN tp.source_port ELSE "none",
     inactive |-> tp.rtp_enabled,
     port |-> tp.destination_port,
     connection_address |-> IF type = "sender" THEN tp.destination_ip ELSE tp.multicast_ip]

\* the media description of one leg: what nmos::make_session_description takes from
\* the leg, and the custom attributes impl::make_session_description adds
internal_media_description(type, tp) ==
    [iface_ip |-> IF type = "receiver" THEN tp.interface_ip ELSE tp.source_ip,
     src_port |-> IF type = "sender" /\ tp.source_port # "auto" THEN tp.source_port ELSE "none",
     inactive |-> ~tp.rtp_enabled,
     port |-> tp.destination_port,
     connection_address |-> IF type = "sender" THEN tp.destination_ip ELSE tp.multicast_ip]

\* variant: the group hint is always written
make_session_description_hinted(type, internal_id, group_hint, session_info, sdp_params, transport_params) ==
    [kind |-> "sdp", internal_id |-> internal_id,
     group_hint |-> IF group_hint = "" THEN internal_id ELSE group_hint,
     information |-> IF session_info # "" THEN session_info ELSE sdp_params.information,
     media_type |-> sdp_params.media_type,
     media_descriptions |->
         [leg \in 1..Len(transport_params) |->
             internal_media_description(type, transport_params[leg])]]

\* impl::make_session_description: the internal-form SDP of the active parameters
make_session_description(type, internal_id, group_hint, session_info, sdp_params, transport_params) ==
    [kind |-> "sdp", internal_id |-> internal_id, group_hint |-> group_hint,
     information |-> IF session_info # "" THEN session_info ELSE sdp_params.information,
     media_type |-> sdp_params.media_type,
     media_descriptions |->
         [leg \in 1..Len(transport_params) |->
             internal_media_description(type, transport_params[leg])]]

\* variant: a deactivation is reported with the SDP of the active parameters
connection_activation_handler_always_sdp(st_settings, resource, connection_resource) ==
    LET configs == IF resource.type = "sender" THEN st_settings.senders
                   ELSE st_settings.receivers
        config == configs[<<resource.type, resource.data.tags.internal_id[1]>>]
        endpoint_active == connection_resource.data.endpoint_active
    IN  << Callback(resource.data.tags.internal_id[1],
                    make_session_description(resource.type,
                        resource.data.tags.internal_id[1], "", resource.data.description,
                        [information |-> config.information, media_type |-> config.media_type],
                        endpoint_active.transport_params)) >>

\* make_node_implementation_connection_activation_handler: the invocations of the
\* host callback it makes for the resource and its connection resource
connection_activation_handler(st_settings, resource, connection_resource) ==
    LET id == make_id(resource.type, get_tag(resource.data.tags.internal_id))
        configs == IF resource.type = "sender" THEN st_settings.senders
                   ELSE st_settings.receivers
    IN
    IF id \notin DOMAIN configs \/ resource.data.transport # "rtp" THEN <<>>
    \* sdp::parse_session_description throws before the callback is reached
    ELSE IF /\ resource.type = "receiver"
            /\ connection_resource.data.endpoint_active.master_enable
            /\ connection_resource.data.endpoint_active.transport_file.data.kind = "garbage"
    THEN <<>>
    ELSE
    LET internal_id == get_tag(resource.data.tags.internal_id)
        endpoint_active == connection_resource.data.endpoint_active
        transportfile == connection_resource.data.endpoint_transportfile
        staged_file == endpoint_active.transport_file.data
        \* the SDP parameters of the transport file, or of the configured SDP
        sdp_params ==
            IF resource.type = "sender"
            THEN [information |-> configs[id].information,
                  media_type |-> IF transportfile.present THEN transportfile.media_type
                                 ELSE configs[id].media_type]
            ELSE IF staged_file.kind = "sdp"
            THEN [information |-> staged_file.information, media_type |-> staged_file.media_type]
            ELSE [information |-> configs[id].information, media_type |-> configs[id].media_type]
    IN  IF endpoint_active.master_enable
        THEN << Callback(internal_id,
                         make_session_description(resource.type, internal_id,
                             get_tag(resource.data.tags.group_hint),
                             resource.data.description, sdp_params,
                             endpoint_active.transport_params)) >>
        ELSE << Callback(internal_id, NullCallbackSdp) >>

\* the multicast address a controller asks for
PatchedAddress == "239.0.0.1"

\* the PATCH /staged requests of a controller: master_enable, optionally
\* rtp_enabled false for the last leg, optionally an explicit multicast address for
\* the first leg, with an immediate activation
Patches ==
    { [master_enable |-> TRUE, disable_last_leg |-> FALSE, explicit |-> FALSE],
      [master_enable |-> FALSE, disable_last_leg |-> FALSE, explicit |-> FALSE],
      [master_enable |-> TRUE, disable_last_leg |-> TRUE, explicit |-> FALSE],
      [master_enable |-> TRUE, disable_last_leg |-> FALSE, explicit |-> TRUE] }

\* the patch of one leg: the multicast address is the destination of a sender and
\* the group of a receiver
merge_patch_leg(tp, patch, first, final) ==
    LET enabled == IF patch.disable_last_leg /\ final
                   THEN [tp EXCEPT !.rtp_enabled = FALSE] ELSE tp
    IN  IF ~(patch.explicit /\ first) THEN enabled
        ELSE IF "destination_ip" \in DOMAIN tp
        THEN [enabled EXCEPT !.destination_ip = PatchedAddress]
        ELSE [enabled EXCEPT !.multicast_ip = PatchedAddress]

\* the merge of the patch into the /staged endpoint
merge_patch(staged, patch) ==
    [staged EXCEPT
        !.master_enable = patch.master_enable,
        !.transport_params =
            [l \in 1..Len(@) |-> merge_patch_leg(@[l], patch, l = 1, l = Len(@))]]

\* an immediate activation of the connection resource id: /staged is copied to
\* /active, "auto" is resolved, the sender's /transportfile is set, the IS-04
\* subscription is updated and the activation handler is called
connection_activation(st, id, patch, t) ==
    LET resource == st.node_resources[id]
        conn == st.connection_resources[id]
        staged == merge_patch(conn.data.endpoint_staged, patch)
        active == [staged EXCEPT
                      !.activation = [mode |-> "activate_immediate",
                                      requested_time |-> "null",
                                      activation_time |-> ToString(t)],
                      !.transport_params =
                          resolve_auto(id, conn.type, conn.data.endpoint_constraints, @)]
        tf == IF conn.type = "sender"
              THEN set_transportfile(st.node_resources, st.settings, id, active,
                                     conn.data.endpoint_transportfile, t)
              ELSE conn.data.endpoint_transportfile
        cr == [st.connection_resources EXCEPT
                  ![id].version = t,
                  ![id].data.endpoint_staged = staged,
                  ![id].data.endpoint_active = active,
                  ![id].data.endpoint_transportfile = tf]
        nr == set_resource_subscription(st.node_resources, id, active.master_enable, t)
    IN  [stores |-> Done(nr, cr, st.settings),
         callbacks |-> connection_activation_handler(st.settings, nr[id], cr[id])]

----------------------------------------------------------------------------
\* The model lock (nmos::node_model::write_lock, read_lock) and the threads

\* two threads of the host, a reader of the stores (an HTTP GET, the registration
\* behaviour) and the connection activation thread
HostThreads == {"host1", "host2"}
Threads == HostThreads \cup {"reader", "activation"}

FreeLock == [writer |-> "none", readers |-> {}]

\* variant: the operation goes on without waiting for the lock
write_lock_unguarded(l, th) == TRUE

\* variant: a recursive lock, the thread that holds it may take it again
write_lock_recursive(l, th) == l.writer \in {"none", th} /\ l.readers = {}

\* model.write_lock() returns once no thread holds the lock in either mode
write_lock(l, th) == l.writer = "none" /\ l.readers = {}

\* model.read_lock() returns once no thread holds the write lock
read_lock(l, th) == l.writer = "none"

Snapshot(nr, cr, se) ==
    [node_resources |-> nr, connection_resources |-> cr, settings |-> se]

\* what a thread carries through an operation: the call, the stores it found, the
\* callbacks to deliver and the outcome of a call made from inside the callback
Operation(call, stores, callbacks, reentry) ==
    [call |-> call, pre |-> stores, callbacks |-> callbacks, reentry |-> reentry]

----------------------------------------------------------------------------
\* The server: construction and the facade calls

Stores == [node_resources |-> node_resources,
           connection_resources |-> connection_resources,
           settings |-> settings]

StoresOf(r) == [node_resources |-> r.node_resources,
                connection_resources |-> r.connection_resources,
                settings |-> r.settings]

Call(op, id, sdp, ret) == [op |-> op, id |-> id, sdp |-> sdp, ret |-> ret]

\* a log message handed to the gate: its severity and what it reports
Log(level, message) == [level |-> level, message |-> message]

\* the messages of server::server when it succeeds
CreationLog ==
    << Log("info", "Starting NvNmos node"), Log("info", "Process ID"),
       Log("info", "Build settings"), Log("info", "Initial settings"),
       Log("info", "Preparing for connections"), Log("info", "Ready for connections") >>

\* server::log_current_exception: the node implementation writes its own message
log_current_exception(exception) ==
    CASE exception = "none" -> <<>>
      [] exception = "node_implementation_exception" -> <<>>
      [] exception = "std::runtime_error" -> << Log("error", "Implementation error") >>
      [] exception = "std::logic_error" -> << Log("error", "Unexpected exception") >>
      [] OTHER -> << Log("severe", "Unexpected unknown exception") >>

\* the exception that leaves an operation of the server, "none" if it returns, and
\* the messages the operation logged itself
Thrown(exception, log) == [exception |-> exception, log |-> log]

\* server::add_sender, server::add_receiver
add_exception(type, st, sdp, host_interfaces) ==
    IF sdp.kind = "null" THEN Thrown("std::logic_error", <<>>)
    ELSE IF sdp.kind # "sdp" \/ Len(sdp.media_descriptions) = 0
    THEN Thrown("std::runtime_error", <<>>)
    ELSE IF get_format(sdp.media_type) = "error"
    THEN Thrown("node_implementation_exception", <<>>)
    ELSE IF "none" \in RangeOf(interface_names_of(type,
                 get_session_description_transport_params(type, sdp), host_interfaces))
    THEN Thrown("node_implementation_exception",
                << Log("severe", "No network interface corresponding to the connection address") >>)
    ELSE IF make_id(type, sdp.internal_id) \in DOMAIN st.node_resources
            \/ make_id(type, sdp.internal_id) \in DOMAIN st.connection_resources
            \/ (type = "sender" /\ ( make_id("source", sdp.internal_id) \in DOMAIN st.node_resources
                                   \/ make_id("flow", sdp.internal_id) \in DOMAIN st.node_resources))
    THEN Thrown("node_implementation_exception", <<>>)
    ELSE Thrown("none", <<>>)

\* server::remove_sender, server::remove_receiver
remove_exception(type, st, internal_id) ==
    IF has_resource(st.node_resources, make_id(type, internal_id), type)
    THEN Thrown("none", <<>>)
    ELSE Thrown("node_implementation_exception", << Log("error", "Could not find") >>)

\* server::activate_rtp_connection
activate_exception(st, internal_id, sdp) ==
    IF ~has_resource(st.node_resources, make_id("sender", internal_id), "sender")
       /\ ~has_resource(st.node_resources, make_id("receiver", internal_id), "receiver")
    THEN Thrown("none", << Log("error", "Could not find sender or receiver") >>)
    ELSE IF sdp.kind = "garbage"
    THEN Thrown("std::runtime_error", << Log("info", "Updating") >>)
    ELSE Thrown("none", << Log("info", "Updating") >>)

\* the exception and the messages of an operation on the stores st
operation_exception(op, id, sdp, st) ==
    CASE op = "add_sender" -> add_exception("sender", st, sdp, HostInterfaces)
      [] op = "add_receiver" -> add_exception("receiver", st, sdp, HostInterfaces)
      [] op = "remove_sender" -> remove_exception("sender", st, id)
      [] op = "remove_receiver" -> remove_exception("receiver", st, id)
      [] op = "activate" -> activate_exception(st, id, sdp)
      [] OTHER -> Thrown("none", << Log("info", "Activating") >>)

\* one call of a facade function: the server argument and the other pointer argument
\* ("null" or "given"), the exception the server threw and server->impl before it
Facade(server_arg, arg, exception, impl) ==
    [server |-> server_arg, arg |-> arg, exception |-> exception, impl |-> impl]

\* initial receivers and senders of the configuration given to create
Configs ==
    { [seed |-> "nmos-api.local:8080", receivers |-> <<>>, senders |-> <<>>],
      [seed |-> "nmos-api.local:8080", receivers |-> <<>>, senders |-> << VideoPtp >>],
      [seed |-> "192.0.2.10:8080", receivers |-> << AudioPlain >>, senders |-> <<>>],
      [seed |-> "192.0.2.10:8080", receivers |-> << VideoDual >>,
       senders |-> << VideoDual, AudioPlain >>] }

RECURSIVE AddAll(_, _, _, _)
AddAll(st, type, sdps, t) ==
    IF sdps = <<>> \/ ~st.ok THEN st
    ELSE AddAll(IF type = "receiver"
                THEN add_receiver_(st, Head(sdps), HostInterfaces, t + 1)
                ELSE add_sender_(st, Head(sdps), HostInterfaces, t + 1),
                type, Tail(sdps), t + 1)

\* server::server at time t: init, then the receivers, then the senders
ConstructAt(config, t) ==
    LET i0 == node_implementation_init_(t + 1)
        s0 == [i0 EXCEPT !.settings = make_settings(config) @@ @]
        s1 == AddAll(s0, "receiver", config.receivers, t + 1)
    IN  AddAll(s1, "sender", config.senders, t + 1 + Len(config.receivers))

\* server::server of the first node of the process
Construct(config) == ConstructAt(config, 0)

RECURSIVE AddAllThrown(_, _, _, _)
AddAllThrown(st, type, sdps, t) ==
    IF sdps = <<>> THEN Thrown("none", <<>>)
    ELSE LET thrown == add_exception(type, st, Head(sdps), HostInterfaces)
         IN  IF thrown.exception # "none" THEN thrown
             ELSE AddAllThrown(IF type = "receiver"
                               THEN add_receiver_(st, Head(sdps), HostInterfaces, t + 1)
                               ELSE add_sender_(st, Head(sdps), HostInterfaces, t + 1),
                               type, Tail(sdps), t + 1)

\* the exception that leaves server::server, "none" if the node was constructed,
\* and the messages it logged, its own report of the exception included
construct_exception(config, t) ==
    LET i0 == node_implementation_init_(t + 1)
        s0 == [i0 EXCEPT !.settings = make_settings(config) @@ @]
        receivers == AddAllThrown(s0, "receiver", config.receivers, t + 1)
        s1 == AddAll(s0, "receiver", config.receivers, t + 1)
        senders == AddAllThrown(s1, "sender", config.senders,
                                t + 1 + Len(config.receivers))
        thrown == IF receivers.exception # "none" THEN receivers ELSE senders
    IN  IF thrown.exception = "none" THEN Thrown("none", CreationLog)
        ELSE Thrown(thrown.exception,
                    SubSeq(CreationLog, 1, 4) \o thrown.log
                        \o log_current_exception(thrown.exception))

\* the state in which create returns the server of the configuration
Created(config) ==
        LET s == Construct(config)
        IN  /\ s.ok
            /\ node_resources = s.node_resources
            /\ connection_resources = s.connection_resources
            /\ settings = s.settings
            /\ now = 1 + Len(config.receivers) + Len(config.senders)
            /\ ncalls = 0
            /\ last = Call("create", "", NullSdp, TRUE)
            /\ pre = StoresOf(s)
            /\ last2 = Call("create", "", NullSdp, TRUE)
            /\ pre2 = StoresOf(s)
            /\ delivered = <<>>
            /\ notified = 1 + Len(config.receivers) + Len(config.senders)
            /\ seen = [node_resources |-> EmptyStore, connection_resources |-> EmptyStore]
            /\ lock = FreeLock
            /\ pc = [th \in Threads |-> "idle"]
            /\ todo = [th \in Threads |-> <<>>]
            /\ running = [th \in Threads |->
                             Operation(Call("create", "", NullSdp, TRUE), StoresOf(s),
                                       <<>>, "none")]
            /\ server = [impl |-> TRUE]
            /\ logged = CreationLog
            /\ facade = Facade("server", "given", "none", FALSE)

Init == \E config \in Configs : Created(config)

Max(a, b) == IF a >= b THEN a ELSE b

\* the highest version of every id that was in the store at some time
Observe(highest, resources) ==
    [id \in DOMAIN highest \cup DOMAIN resources |->
        IF id \notin DOMAIN resources THEN highest[id]
        ELSE IF id \notin DOMAIN highest THEN resources[id].version
        ELSE Max(highest[id], resources[id].version)]

\* the end of an operation that held the write lock: the stores it leaves, the
\* notifications it made and the callbacks it delivered
FinishLogged(op, id, sdp, r, notifications, callbacks, log) ==
    /\ node_resources' = r.node_resources
    /\ connection_resources' = r.connection_resources
    /\ settings' = r.settings
    /\ now' = now + 1
    /\ ncalls' = ncalls + 1
    /\ last' = Call(op, id, sdp, r.ok)
    /\ pre' = Stores
    /\ last2' = last
    /\ pre2' = pre
    /\ delivered' = callbacks
    /\ notified' = notifications
    /\ seen' = [node_resources |-> Observe(seen.node_resources, node_resources),
                connection_resources |->
                    Observe(seen.connection_resources, connection_resources)]
    /\ logged' = LET thrown == operation_exception(op, id, sdp, Stores)
                 IN  thrown.log \o log_current_exception(thrown.exception) \o log
    /\ facade' = Facade("server", "given",
                        operation_exception(op, id, sdp, Stores).exception, server.impl)
    /\ UNCHANGED <<lock, pc, todo, running, server>>

\* the end of an operation that logs nothing after its own messages
Finish(op, id, sdp, r, notifications, callbacks) ==
    FinishLogged(op, id, sdp, r, notifications, callbacks, << >>)

\* what every facade call does with the result of the operation: model.notify()
\* follows the operation and is skipped by the exception of a failed one
Return(op, id, sdp, r) ==
    Finish(op, id, sdp, r, IF r.ok THEN 1 ELSE 0, <<>>)

\* add_nmos_sender_to_node_server
AddSender ==
    \E sdp \in AddSdps :
        /\ ncalls < MaxCalls
        /\ Return("add_sender", sdp.internal_id, sdp,
                  add_sender_(Stores, sdp, HostInterfaces, now + 1))

\* add_nmos_receiver_to_node_server
AddReceiver ==
    \E sdp \in AddSdps :
        /\ ncalls < MaxCalls
        /\ Return("add_receiver", sdp.internal_id, sdp,
                  add_receiver_(Stores, sdp, HostInterfaces, now + 1))

\* remove_nmos_sender_from_node_server
RemoveSender ==
    \E id \in InternalIds :
        /\ ncalls < MaxCalls
        /\ Return("remove_sender", id, NullSdp,
                  remove_connection_(Stores, "sender", id, HostInterfaces, now + 1))

\* remove_nmos_receiver_from_node_server
RemoveReceiver ==
    \E id \in InternalIds :
        /\ ncalls < MaxCalls
        /\ Return("remove_receiver", id, NullSdp,
                  remove_connection_(Stores, "receiver", id, HostInterfaces, now + 1))

\* nmos_connection_rtp_activate
Activate ==
    \E id \in InternalIds, sdp \in ActivateSdps :
        /\ ncalls < MaxCalls
        /\ Return("activate", id, sdp,
                  activate_rtp_connection_(Stores, id, sdp, now + 1))

\* the message of the wrapper of the host's callback
ActivationFailed == Log("warning", "Activation failed for internal id")

rtp_connection_activated_undone(st, a, success) ==
    [stores |-> IF a.callbacks # << >> /\ ~success
                THEN Done(st.node_resources, st.connection_resources, st.settings)
                ELSE a.stores,
     callbacks |-> a.callbacks,
     log |-> IF a.callbacks # << >> /\ ~success THEN << ActivationFailed >> ELSE << >>]

\* the wrapper the server gives the activation handler: it calls the host's callback
\* with what the handler made and logs a warning when the host returns false.  The
\* activation a is what the node did before the handler ran.
rtp_connection_activated(st, a, success) ==
    [stores |-> a.stores,
     callbacks |-> a.callbacks,
     log |-> IF a.callbacks # << >> /\ ~success THEN << ActivationFailed >> ELSE << >>]

\* a controller's PATCH /staged with an immediate activation, carried out by the
\* connection activation thread of the node; the host's callback returns either value
Is05Activate ==
    \E type \in {"sender", "receiver"}, i \in InternalIds, patch \in Patches :
        LET id == make_id(type, i)
        IN  /\ ncalls < MaxCalls
            /\ has_resource(node_resources, id, type)
            /\ id \in DOMAIN connection_resources
            /\ \E success \in BOOLEAN :
                   LET a == rtp_connection_activated(
                                Stores, connection_activation(Stores, id, patch, now + 1),
                                success)
                   IN  FinishLogged(IF type = "sender" THEN "is05_activate_sender"
                                    ELSE "is05_activate_receiver",
                                    i, NullSdp, a.stores, 1, a.callbacks, a.log)

Next ==
    \/ AddSender \/ AddReceiver \/ RemoveSender \/ RemoveReceiver \/ Activate
    \/ Is05Activate

Spec == Init /\ [][Next]_vars

----------------------------------------------------------------------------
\* The operations write by write, as the threads take them under the model lock

\* the states of the stores after each write of node_implementation_add_sender_
add_sender_writes(st, sdp, host_interfaces, t) ==
    IF sdp.kind # "sdp" \/ Len(sdp.media_descriptions) = 0 THEN <<>>
    ELSE
    LET transport_params == get_session_description_transport_params("sender", sdp)
        source_id == make_id("source", sdp.internal_id)
        flow_id == make_id("flow", sdp.internal_id)
        sender_id == make_id("sender", sdp.internal_id)
        format == get_format(sdp.media_type)
        interface_names == interface_names_of("sender", transport_params, host_interfaces)
    IN
    IF format = "error" \/ "none" \in RangeOf(interface_names) THEN <<>>
    ELSE
    LET cr == st.connection_resources
        se == st.settings
        i1 == insert_resource(st.node_resources, source_id, make_source(device_id, format, t))
        i2 == insert_resource(i1.resources, flow_id,
                              make_flow(source_id, device_id, format, sdp.media_type, t))
        i3 == insert_resource(i2.resources, sender_id,
                              make_sender(flow_id, device_id, interface_names, sdp, t))
        i4 == insert_resource(cr, sender_id,
                              make_connection(sender_id, "sender", transport_params, t))
        n1 == device_push_back(i3.resources, "senders", sender_id, t)
        n2 == update_node_interfaces(n1, host_interfaces, t)
        c == make_node_clock("clk0", get_session_description_ts_refclks(sdp),
                             ptp_domain_number(se, "clk0"))
        n3 == update_node_clock(n2, c.clock, t)
        se1 == [se EXCEPT !.clocks = Put(@, "clk0", [ptp_domain_number |-> c.ptp_domain])]
        inserted == << Snapshot(i1.resources, cr, se), Snapshot(i2.resources, cr, se),
                       Snapshot(i3.resources, cr, se), Snapshot(i3.resources, i4.resources, se) >>
    IN  IF ~i1.second THEN <<>>
        ELSE IF ~i2.second THEN SubSeq(inserted, 1, 1)
        ELSE IF ~i3.second THEN SubSeq(inserted, 1, 2)
        ELSE IF ~i4.second THEN SubSeq(inserted, 1, 3)
        ELSE inserted \o
             << Snapshot(n1, i4.resources, se), Snapshot(n2, i4.resources, se),
                Snapshot(n3, i4.resources, se), Snapshot(n3, i4.resources, se1),
                Snapshot(n3, i4.resources, [se1 EXCEPT !.senders = Put(@, sender_id, sdp)]) >>

\* the states of the stores after each write of node_implementation_add_receiver_
add_receiver_writes(st, sdp, host_interfaces, t) ==
    IF sdp.kind # "sdp" \/ Len(sdp.media_descriptions) = 0 THEN <<>>
    ELSE
    LET transport_params == get_session_description_transport_params("receiver", sdp)
        receiver_id == make_id("receiver", sdp.internal_id)
        format == get_format(sdp.media_type)
        interface_names == interface_names_of("receiver", transport_params, host_interfaces)
    IN
    IF format = "error" \/ "none" \in RangeOf(interface_names) THEN <<>>
    ELSE
    LET cr == st.connection_resources
        se == st.settings
        i1 == insert_resource(st.node_resources, receiver_id,
                              make_receiver(device_id, interface_names, format, sdp, t))
        i2 == insert_resource(cr, receiver_id,
                              make_connection(receiver_id, "receiver", transport_params, t))
        n1 == device_push_back(i1.resources, "receivers", receiver_id, t)
        n2 == update_node_interfaces(n1, host_interfaces, t)
    IN  IF ~i1.second THEN <<>>
        ELSE IF ~i2.second THEN << Snapshot(i1.resources, cr, se) >>
        ELSE << Snapshot(i1.resources, cr, se), Snapshot(i1.resources, i2.resources, se),
                Snapshot(n1, i2.resources, se), Snapshot(n2, i2.resources, se),
                Snapshot(n2, i2.resources, [se EXCEPT !.receivers = Put(@, receiver_id, sdp)]) >>

\* the states of the stores after each write of node_implementation_remove_connection_:
\* the connection resource first, then the sender or receiver, its flow and its source
remove_connection_writes(st, type, internal_id, host_interfaces, t) ==
    LET id == make_id(type, internal_id)
    IN  IF ~has_resource(st.node_resources, id, type) THEN <<>>
        ELSE
        LET se == st.settings
            resource == st.node_resources[id]
            flow_id == resource.data.flow_id
            has_flow == type = "sender" /\ has_resource(st.node_resources, flow_id, "flow")
            cr == erase_resource(st.connection_resources, id)
            e1 == erase_resource(st.node_resources, id)
            e2 == IF type = "sender" THEN erase_resource(e1, flow_id) ELSE e1
            e3 == erase_bundle(st.node_resources, id)
            n2 == device_erase(e3, type, id, t)
            n3 == update_node_interfaces(n2, host_interfaces, t)
        IN  << Snapshot(st.node_resources, cr, se), Snapshot(e1, cr, se),
               Snapshot(e2, cr, se), Snapshot(e3, cr, se), Snapshot(n2, cr, se),
               Snapshot(n3, cr, se),
               Snapshot(n3, cr, IF type = "sender"
                                THEN [se EXCEPT !.senders = erase_config(@, id)]
                                ELSE [se EXCEPT !.receivers = erase_config(@, id)]) >>

\* the states of the stores after each write of
\* node_implementation_activate_rtp_connection_: the node clock and its setting for a
\* sender with an SDP, the connection resource, the subscription
activate_writes(st, internal_id, sdp, t) ==
    LET sender_id == make_id("sender", internal_id)
        is_sender == has_resource(st.node_resources, sender_id, "sender")
        is_receiver == has_resource(st.node_resources, make_id("receiver", internal_id),
                                    "receiver")
        r == activate_rtp_connection_(st, internal_id, sdp, t)
        c == make_node_clock("clk0", get_session_description_ts_refclks(sdp),
                             ptp_domain_number(st.settings, "clk0"))
        n1 == update_node_clock(st.node_resources, c.clock, t)
    IN  IF ~is_sender /\ ~is_receiver THEN <<>>
        ELSE IF is_sender /\ sdp.kind = "garbage" THEN <<>>
        ELSE (IF is_sender /\ sdp.kind # "empty"
              THEN << Snapshot(n1, st.connection_resources, st.settings),
                      Snapshot(n1, st.connection_resources, r.settings),
                      Snapshot(n1, r.connection_resources, r.settings) >>
              ELSE << Snapshot(st.node_resources, r.connection_resources, st.settings) >>)
             \o (IF r.ok THEN << StoresOf(r) >> ELSE <<>>)

\* the states of the stores after each write of an IS-05 activation: the connection
\* resource, then the subscription of the sender or receiver
connection_activation_writes(st, id, patch, t) ==
    LET a == connection_activation(st, id, patch, t)
    IN  << Snapshot(st.node_resources, a.stores.connection_resources, st.settings),
           StoresOf(a.stores) >>

\* number of operations the threads start
MaxOps == 2

\* the configuration of the server the threads share
LockConfigs ==
    { [seed |-> "nmos-api.local:8080", receivers |-> << AudioPlain >>,
       senders |-> << VideoPtp >>] }

\* the facade calls the host threads make
HostCalls ==
    { Call("add_sender", "sink-1", AudioPlain, TRUE),
      Call("add_receiver", "sink-0", VideoDual, TRUE),
      Call("remove_sender", "sink-0", NullSdp, TRUE),
      Call("remove_receiver", "sink-1", NullSdp, TRUE),
      Call("activate", "sink-0", VideoDual, TRUE),
      Call("activate", "sink-1", EmptySdp, TRUE) }

\* the operation of the call on the stores
Perform(c, st, t) ==
    CASE c.op = "add_sender" -> add_sender_(st, c.sdp, HostInterfaces, t)
      [] c.op = "add_receiver" -> add_receiver_(st, c.sdp, HostInterfaces, t)
      [] c.op = "remove_sender" -> remove_connection_(st, "sender", c.id, HostInterfaces, t)
      [] c.op = "remove_receiver" -> remove_connection_(st, "receiver", c.id, HostInterfaces, t)
      [] OTHER -> activate_rtp_connection_(st, c.id, c.sdp, t)

\* its writes in turn
Writes(c, st, t) ==
    CASE c.op = "add_sender" -> add_sender_writes(st, c.sdp, HostInterfaces, t)
      [] c.op = "add_receiver" -> add_receiver_writes(st, c.sdp, HostInterfaces, t)
      [] c.op = "remove_sender" ->
             remove_connection_writes(st, "sender", c.id, HostInterfaces, t)
      [] c.op = "remove_receiver" ->
             remove_connection_writes(st, "receiver", c.id, HostInterfaces, t)
      [] OTHER -> activate_writes(st, c.id, c.sdp, t)

SetStores(st) ==
    /\ node_resources' = st.node_resources
    /\ connection_resources' = st.connection_resources
    /\ settings' = st.settings

unlock_on_success(l, ok) == IF ok THEN [l EXCEPT !.writer = "none"] ELSE l

\* the lock object of the wrapper goes out of scope, whether the operation
\* returned or threw
unlock(l, ok) == [l EXCEPT !.writer = "none"]

\* the write lock is released and the operation of the thread is the last one
Unlock(th, notifications, callbacks) ==
    /\ lock' = unlock(lock, running[th].call.ret)
    /\ pc' = [pc EXCEPT ![th] = "idle"]
    /\ last' = running[th].call
    /\ pre' = running[th].pre
    /\ last2' = last
    /\ pre2' = pre
    /\ delivered' = callbacks
    /\ notified' = notifications
    /\ seen' = [node_resources |->
                    Observe(seen.node_resources, running[th].pre.node_resources),
                connection_resources |->
                    Observe(seen.connection_resources, running[th].pre.connection_resources)]
    /\ UNCHANGED <<node_resources, connection_resources, settings, now, ncalls,
                   todo, running, server, logged, facade>>

\* a host thread enters node_implementation_add_sender, ..._activate_rtp_connection:
\* auto lock = model.write_lock()
HostCall(th) ==
    \E c \in HostCalls :
        /\ pc[th] = "idle"
        /\ ncalls < MaxOps
        /\ write_lock(lock, th)
        /\ lock' = [lock EXCEPT !.writer = th]
        /\ pc' = [pc EXCEPT ![th] = "writing"]
        /\ todo' = [todo EXCEPT ![th] = Writes(c, Stores, now + 1)]
        /\ running' = [running EXCEPT ![th] =
               Operation([c EXCEPT !.ret = Perform(c, Stores, now + 1).ok], Stores, <<>>, "none")]
        /\ now' = now + 1
        /\ ncalls' = ncalls + 1
        /\ UNCHANGED <<node_resources, connection_resources, settings,
                       last, pre, last2, pre2, delivered, notified, seen,
                       server, logged, facade>>

\* the next write of the operation the thread is in
Write(th) ==
    /\ pc[th] = "writing"
    /\ todo[th] # <<>>
    /\ SetStores(Head(todo[th]))
    /\ todo' = [todo EXCEPT ![th] = Tail(@)]
    /\ UNCHANGED <<now, ncalls, last, pre, last2, pre2, delivered, notified, seen,
                   lock, pc, running, server, logged, facade>>

\* model.notify() unless the operation threw, and the lock goes out of scope
HostReturn(th) ==
    /\ pc[th] = "writing"
    /\ todo[th] = <<>>
    /\ Unlock(th, IF running[th].call.ret THEN 1 ELSE 0, <<>>)

\* the connection activation thread takes the write lock for an activation
ActivationCall ==
    \E type \in {"sender", "receiver"}, i \in InternalIds, patch \in Patches :
        LET id == make_id(type, i)
            th == "activation"
        IN  /\ pc[th] = "idle"
            /\ ncalls < MaxOps
            /\ has_resource(node_resources, id, type)
            /\ id \in DOMAIN connection_resources
            /\ write_lock(lock, th)
            /\ lock' = [lock EXCEPT !.writer = th]
            /\ pc' = [pc EXCEPT ![th] = "writing"]
            /\ todo' = [todo EXCEPT ![th] =
                   connection_activation_writes(Stores, id, patch, now + 1)]
            /\ running' = [running EXCEPT ![th] =
                   Operation(Call(IF type = "sender" THEN "is05_activate_sender"
                                  ELSE "is05_activate_receiver", i, NullSdp, TRUE),
                             Stores,
                             connection_activation(Stores, id, patch, now + 1).callbacks,
                             "none")]
            /\ now' = now + 1
            /\ ncalls' = ncalls + 1
            /\ UNCHANGED <<node_resources, connection_resources, settings,
                           last, pre, last2, pre2, delivered, notified, seen,
                       server, logged, facade>>

\* the activation handler calls the host, the thread still holding the write lock
InvokeCallback ==
    /\ pc["activation"] = "writing"
    /\ todo["activation"] = <<>>
    /\ pc' = [pc EXCEPT !["activation"] = "callback"]
    /\ delivered' = running["activation"].callbacks
    /\ UNCHANGED <<node_resources, connection_resources, settings, now, ncalls,
                   last, pre, last2, pre2, notified, seen, lock, todo, running,
                   server, logged, facade>>

\* the host calls the facade from inside the callback.  Locking a mutex the thread
\* owns is undefined: the call waits for ever, or the lock reports the deadlock and
\* the facade turns the exception into false.
Reenter ==
    \E c \in HostCalls :
        /\ pc["activation"] = "callback"
        /\ running["activation"].reentry = "none"
        /\ IF write_lock(lock, "activation")
           THEN /\ SetStores(StoresOf(Perform(c, Stores, now + 1)))
                /\ running' = [running EXCEPT !["activation"].reentry =
                                   IF Perform(c, Stores, now + 1).ok THEN "done" ELSE "failed"]
                /\ now' = now + 1
                /\ UNCHANGED pc
           ELSE /\ \/ /\ pc' = [pc EXCEPT !["activation"] = "blocked"]
                      /\ UNCHANGED running
                   \/ /\ running' = [running EXCEPT !["activation"].reentry = "failed"]
                      /\ UNCHANGED pc
                /\ UNCHANGED <<node_resources, connection_resources, settings, now>>
        /\ UNCHANGED <<ncalls, last, pre, last2, pre2, delivered, notified, seen,
                       lock, todo, server, logged, facade>>

\* the callback returns, the activation thread notifies and releases the lock
CallbackReturn ==
    /\ pc["activation"] = "callback"
    /\ Unlock("activation", 1, delivered)

\* a reader takes the read lock and reads the stores
ReadLock ==
    /\ pc["reader"] = "idle"
    /\ read_lock(lock, "reader")
    /\ lock' = [lock EXCEPT !.readers = @ \cup {"reader"}]
    /\ pc' = [pc EXCEPT !["reader"] = "reading"]
    /\ running' = [running EXCEPT !["reader"] =
           Operation(Call("read", "", NullSdp, TRUE), Stores, <<>>, "none")]
    /\ UNCHANGED <<node_resources, connection_resources, settings, now, ncalls,
                   last, pre, last2, pre2, delivered, notified, seen, todo,
                   server, logged, facade>>

\* and releases it
ReadUnlock ==
    /\ pc["reader"] = "reading"
    /\ lock' = [lock EXCEPT !.readers = @ \ {"reader"}]
    /\ pc' = [pc EXCEPT !["reader"] = "idle"]
    /\ UNCHANGED <<node_resources, connection_resources, settings, now, ncalls,
                   last, pre, last2, pre2, delivered, notified, seen, todo, running,
                   server, logged, facade>>

LockInit == \E config \in LockConfigs : Created(config)

LockNext ==
    \/ \E th \in HostThreads : HostCall(th)
    \/ \E th \in Threads : Write(th)
    \/ \E th \in HostThreads : HostReturn(th)
    \/ ActivationCall
    \/ InvokeCallback
    \/ Reenter
    \/ CallbackReturn
    \/ ReadLock
    \/ ReadUnlock

LockSpec == LockInit /\ [][LockNext]_vars

\* ---- calls that wait for the write lock ----

MaxWaits == 2

\* the facade calls the waiting threads make: an add that throws (the sender
\* exists), a remove that succeeds, an activate that throws after its first writes
WaitingCalls ==
    { Call("add_sender", "sink-0", VideoPtp, TRUE),
      Call("remove_sender", "sink-0", NullSdp, TRUE),
      Call("activate", "sink-1", GarbageSdp, TRUE) }

\* a host thread calls a facade function and reaches model.write_lock()
HostEnter(th) ==
    \E c \in WaitingCalls :
        /\ pc[th] = "idle"
        /\ ncalls < MaxWaits
        /\ pc' = [pc EXCEPT ![th] = "waiting"]
        /\ running' = [running EXCEPT ![th] = Operation(c, Stores, <<>>, "none")]
        /\ ncalls' = ncalls + 1
        /\ UNCHANGED <<node_resources, connection_resources, settings, now,
                       last, pre, last2, pre2, delivered, notified, seen, lock, todo,
                       server, logged, facade>>

\* model.write_lock() returns to the waiting thread: the operation starts from the
\* stores as they are now
HostAcquire(th) ==
    /\ pc[th] = "waiting"
    /\ write_lock(lock, th)
    /\ lock' = [lock EXCEPT !.writer = th]
    /\ pc' = [pc EXCEPT ![th] = "writing"]
    /\ todo' = [todo EXCEPT ![th] = Writes(running[th].call, Stores, now + 1)]
    /\ running' = [running EXCEPT ![th] =
           Operation([running[th].call EXCEPT
                          !.ret = Perform(running[th].call, Stores, now + 1).ok],
                     Stores, <<>>, "none")]
    /\ now' = now + 1
    /\ UNCHANGED <<node_resources, connection_resources, settings, ncalls,
                   last, pre, last2, pre2, delivered, notified, seen,
                   server, logged, facade>>

\* the threads without a call from inside the callback
WaitNext ==
    \/ \E th \in HostThreads : HostEnter(th)
    \/ \E th \in HostThreads : HostAcquire(th)
    \/ \E th \in Threads : Write(th)
    \/ \E th \in HostThreads : HostReturn(th)
    \/ ActivationCall
    \/ InvokeCallback
    \/ CallbackReturn
    \/ ReadLock
    \/ ReadUnlock

\* every thread that can run does run, the host's callback returns, a reader gives
\* the read lock back, and the lock is handed to a thread that is waiting for it
\* and finds it free again and again
WaitFairness ==
    /\ \A th \in Threads : WF_vars(Write(th))
    /\ \A th \in HostThreads : WF_vars(HostReturn(th))
    /\ \A th \in HostThreads : SF_vars(HostAcquire(th))
    /\ WF_vars(InvokeCallback)
    /\ WF_vars(CallbackReturn)
    /\ WF_vars(ReadUnlock)

WaitSpec == LockInit /\ [][WaitNext]_vars /\ WaitFairness

----------------------------------------------------------------------------
\* Properties

SenderId(i) == <<"sender", i>>
ReceiverId(i) == <<"receiver", i>>

\* the resource an activate call for internal id i addresses in the given store
Known(resources, i) == SenderId(i) \in DOMAIN resources \/ ReceiverId(i) \in DOMAIN resources
Target(resources, i) == IF SenderId(i) \in DOMAIN resources THEN SenderId(i) ELSE ReceiverId(i)

FailedAdd == last.op \in {"add_sender", "add_receiver"} /\ ~last.ret

\* C1: an add_sender or add_receiver that returns false (null or unparseable SDP,
\* unsupported media type, no matching host interface, duplicate id) leaves the node
\* store, the connection store and the settings exactly as they were before the call.
C1_FailedAddLeavesStores ==
    FailedAdd => Stores = pre

\* C1 case: an add_sender rejected because the sender of that internal id exists
C1_Witness ==
    /\ last.op = "add_sender" /\ ~last.ret /\ last.sdp.kind = "sdp"
    /\ SenderId(last.id) \in DOMAIN pre.node_resources
    /\ pre.settings.senders[SenderId(last.id)] # last.sdp

\* C2: an activate that returns false for an existing sender or receiver leaves that
\* resource's active endpoint, its version, the transportfile and the node's clocks
\* unchanged.
C2_FailedActivateLeavesResource ==
    (last.op = "activate" /\ ~last.ret /\ Known(pre.node_resources, last.id)) =>
        LET id == Target(pre.node_resources, last.id)
        IN  /\ connection_resources[id].data.endpoint_active =
                   pre.connection_resources[id].data.endpoint_active
            /\ connection_resources[id].version = pre.connection_resources[id].version
            /\ connection_resources[id].data.endpoint_transportfile =
                   pre.connection_resources[id].data.endpoint_transportfile
            /\ node_resources[node_id].data.clocks = pre.node_resources[node_id].data.clocks

\* C3: an activate with an internal id that matches no sender and no receiver returns
\* false and changes no resource.
C3_ActivateUnknownIdFails ==
    (last.op = "activate" /\ ~Known(pre.node_resources, last.id)) =>
        (~last.ret /\ Stores = pre)

\* C4: a successful remove erases exactly the bundle of the named resource (sender,
\* flow, source and connection sender; or receiver and connection receiver); every
\* other resource is still present with unchanged data.
C4_RemoveErasesExactlyBundle ==
    (last.op \in {"remove_sender", "remove_receiver"} /\ last.ret) =>
        LET bundle == IF last.op = "remove_sender"
                      THEN {SenderId(last.id), <<"flow", last.id>>, <<"source", last.id>>}
                      ELSE {ReceiverId(last.id)}
            twin == IF last.op = "remove_sender" THEN SenderId(last.id) ELSE ReceiverId(last.id)
        IN  /\ bundle \subseteq DOMAIN pre.node_resources
            /\ DOMAIN node_resources = DOMAIN pre.node_resources \ bundle
            /\ DOMAIN connection_resources = DOMAIN pre.connection_resources \ {twin}
            /\ twin \in DOMAIN pre.connection_resources
            /\ \A x \in DOMAIN node_resources :
                   node_resources[x].type \in {"source", "flow", "sender", "receiver"}
                       => node_resources[x] = pre.node_resources[x]
            /\ \A x \in DOMAIN connection_resources :
                   connection_resources[x] = pre.connection_resources[x]

\* C4 case: a sender was removed while another sender and a receiver stay
C4_Witness ==
    /\ last.op = "remove_sender" /\ last.ret
    /\ IdsOfType(node_resources, "sender") # {}
    /\ IdsOfType(node_resources, "receiver") # {}

\* C5: the interface names in the node's interfaces[] are exactly the names bound by
\* the interface_bindings[] of the senders and receivers in the store.
C5_InterfacesAreBoundOnes ==
    {node_resources[node_id].data.interfaces[k].name :
        k \in 1..Len(node_resources[node_id].data.interfaces)}
    = {n \in {HostInterfaces[k].name : k \in 1..Len(HostInterfaces)} :
        \E x \in DOMAIN node_resources :
            /\ node_resources[x].type \in {"sender", "receiver"}
            /\ \E l \in 1..Len(node_resources[x].data.interface_bindings) :
                   node_resources[x].data.interface_bindings[l] = n}

\* C5 case: a remove took the last binding of an interface away, another one stays
C5_Witness ==
    /\ last.op \in {"remove_sender", "remove_receiver"} /\ last.ret
    /\ Len(pre.node_resources[node_id].data.interfaces) = 2
    /\ Len(node_resources[node_id].data.interfaces) = 1

\* C6: every flow references a source in the store, every sender a flow in the store,
\* and every source, flow, sender and receiver the device in the store.
C6_ReferencesResolve ==
    \A x \in DOMAIN node_resources :
        LET r == node_resources[x]
        IN  /\ r.type = "flow" => has_resource(node_resources, r.data.source_id, "source")
            /\ r.type = "sender" => has_resource(node_resources, r.data.flow_id, "flow")
            /\ r.type \in {"source", "flow", "sender", "receiver"}
                   => has_resource(node_resources, r.data.device_id, "device")

\* C6 case: after the removal of one sender another sender with its flow is present
C6_Witness ==
    /\ last.op = "remove_sender" /\ last.ret
    /\ \E x \in DOMAIN node_resources : node_resources[x].type = "flow"

\* C7: the device's senders[] lists exactly the ids of the senders in the store and
\* its receivers[] exactly the ids of the receivers, each id once.
C7_DeviceArraysListResources ==
    LET device == node_resources[device_id].data
    IN  /\ RangeOf(device.senders) = IdsOfType(node_resources, "sender")
        /\ Len(device.senders) = Cardinality(IdsOfType(node_resources, "sender"))
        /\ RangeOf(device.receivers) = IdsOfType(node_resources, "receiver")
        /\ Len(device.receivers) = Cardinality(IdsOfType(node_resources, "receiver"))

\* C7 case: a receiver was removed and a sender is still listed
C7_Witness ==
    /\ last.op = "remove_receiver" /\ last.ret
    /\ Len(node_resources[device_id].data.senders) > 0

\* C8: for every connection resource the active and the staged transport_params have
\* length 1 or 2, equal to the length of the parent's interface_bindings[].
C8_LegsMatchBindings ==
    \A x \in DOMAIN connection_resources :
        LET d == connection_resources[x].data
            n == Len(node_resources[x].data.interface_bindings)
        IN  /\ n \in {1, 2}
            /\ Len(d.endpoint_active.transport_params) = n
            /\ Len(d.endpoint_staged.transport_params) = n

\* the stores without the version of any resource and without the origin version
\* of the transportfile
WithoutVersions(stores) ==
    [node_resources |->
        [x \in DOMAIN stores.node_resources |->
            [type |-> stores.node_resources[x].type, data |-> stores.node_resources[x].data]],
     connection_resources |->
        [x \in DOMAIN stores.connection_resources |->
            [type |-> stores.connection_resources[x].type,
             data |-> [stores.connection_resources[x].data EXCEPT
                          !.endpoint_transportfile.session_version = 0]]]]

\* activate(id, sdp) directly followed by activate(id, empty), both successful, on a
\* sender or receiver that existed before the first of them
ActivatedThenDeactivated ==
    /\ last2.op = "activate" /\ last2.ret /\ last2.sdp.kind = "sdp"
    /\ last.op = "activate" /\ last.ret /\ last.sdp.kind = "empty"
    /\ last.id = last2.id
    /\ Known(pre2.node_resources, last.id)

\* C9 (as stated): activate(id, sdp) then activate(id, empty) leaves both stores equal,
\* ignoring version fields, to their state before the first activate.
C9_ActivateDeactivateRestores ==
    ActivatedThenDeactivated => WithoutVersions(Stores) = WithoutVersions(pre2)

\* C9 (amended): activate(id, sdp) then activate(id, empty) leaves every source, flow,
\* sender, receiver and the device with the data they had before the first activate
\* (the subscription of the activated resource being inactive), and leaves the other
\* connection resources and the staged endpoint and constraints of the activated one
\* as they were; the active endpoint has master_enable false but keeps the
\* transport_params parsed from sdp, a receiver keeps sdp as its active transport_file,
\* a sender keeps a rebuilt transportfile and the node clock derived from sdp.
C9_DeactivateKeepsActivatedParams ==
    ActivatedThenDeactivated =>
        LET id == Target(pre2.node_resources, last.id)
            type == pre2.node_resources[id].type
            sdp == last2.sdp
            was == pre2.connection_resources[id].data
            is == connection_resources[id].data
        IN  /\ DOMAIN node_resources = DOMAIN pre2.node_resources
            /\ DOMAIN connection_resources = DOMAIN pre2.connection_resources
            /\ \A x \in DOMAIN node_resources \ {node_id, id} :
                   node_resources[x].data = pre2.node_resources[x].data
            /\ node_resources[id].data =
                   [pre2.node_resources[id].data EXCEPT !.subscription.active = FALSE]
            /\ node_resources[node_id].data.interfaces =
                   pre2.node_resources[node_id].data.interfaces
            /\ \A x \in DOMAIN connection_resources \ {id} :
                   connection_resources[x] = pre2.connection_resources[x]
            /\ is.endpoint_staged = was.endpoint_staged
            /\ is.endpoint_constraints = was.endpoint_constraints
            /\ ~is.endpoint_active.master_enable
            /\ Len(is.endpoint_active.transport_params) = Len(sdp.media_descriptions)
            /\ \A l \in 1..Len(sdp.media_descriptions) :
                   /\ is.endpoint_active.transport_params[l].destination_port =
                          sdp.media_descriptions[l].port
                   /\ is.endpoint_active.transport_params[l].rtp_enabled =
                          ~sdp.media_descriptions[l].inactive
            /\ type = "receiver" => is.endpoint_active.transport_file.data = sdp
            /\ type = "sender" =>
                   /\ is.endpoint_transportfile.present
                   /\ is.endpoint_transportfile.transport_params =
                          is.endpoint_active.transport_params
                   /\ node_resources[node_id].data.clocks[1] =
                          make_node_clock("clk0", get_session_description_ts_refclks(sdp), 0).clock

\* C9 case: a sender that was added with other transport parameters than the SDP it
\* was activated with has been activated and deactivated
C9_Witness ==
    /\ ActivatedThenDeactivated
    /\ SenderId(last.id) \in DOMAIN node_resources
    /\ settings.senders[SenderId(last.id)] # last2.sdp

\* C10: after a successful activate(id, sdp) of an existing sender or receiver: with a
\* non-empty sdp the active endpoint has master_enable true, the transport_params
\* parsed from sdp (a sender's destination_ip being the SDP's connection address) and,
\* for a receiver, transport_file.data equal to sdp; with an empty sdp master_enable
\* is false and transport_params and transport_file keep their values.  In both cases
\* the version of the connection resource is bumped.
C10_ActivateWritesActiveEndpoint ==
    (last.op = "activate" /\ last.ret /\ Known(pre.node_resources, last.id)) =>
        LET id == Target(pre.node_resources, last.id)
            type == pre.node_resources[id].type
            sdp == last.sdp
            was == pre.connection_resources[id].data.endpoint_active
            is == connection_resources[id].data.endpoint_active
        IN  /\ connection_resources[id].version > pre.connection_resources[id].version
            /\ IF sdp.kind = "sdp"
               THEN /\ is.master_enable
                    /\ Len(is.transport_params) = Len(sdp.media_descriptions)
                    /\ \A l \in 1..Len(sdp.media_descriptions) :
                         LET md == sdp.media_descriptions[l]
                             tp == is.transport_params[l]
                         IN  /\ tp.destination_port = md.port
                             /\ tp.rtp_enabled = ~md.inactive
                             /\ type = "sender" =>
                                    /\ tp.destination_ip = md.connection_address
                                    /\ tp.source_ip = md.iface_ip
                             /\ type = "receiver" =>
                                    /\ tp.multicast_ip = md.connection_address
                                    /\ tp.interface_ip = md.iface_ip
                    /\ type = "receiver" => is.transport_file.data = sdp
               ELSE /\ ~is.master_enable
                    /\ is.transport_params = was.transport_params
                    /\ is.transport_file = was.transport_file

\* C10 case: an active receiver has been deactivated and keeps its transport file
C10_Witness ==
    /\ last.op = "activate" /\ last.ret /\ last.sdp.kind = "empty"
    /\ ReceiverId(last.id) \in DOMAIN node_resources
    /\ SenderId(last.id) \notin DOMAIN node_resources
    /\ pre.connection_resources[ReceiverId(last.id)].data.endpoint_active.master_enable
    /\ connection_resources[ReceiverId(last.id)].data.endpoint_active.transport_file.data.kind = "sdp"

\* the values of the fields of one leg that may hold "auto"
LegValues(type, tp) ==
    IF type = "sender"
    THEN {tp.source_ip, tp.destination_ip, tp.source_port, tp.destination_port}
    ELSE {tp.source_ip, tp.multicast_ip, tp.interface_ip, tp.destination_port}

\* C11: whenever the active endpoint of a connection resource has master_enable true,
\* no field of any leg of its active transport_params holds "auto"; this covers a
\* host-initiated activate of a sender whose SDP has no x-nvnmos-src-port attribute.
C11_ActiveParamsResolved ==
    \A id \in DOMAIN connection_resources :
        LET active == connection_resources[id].data.endpoint_active
        IN  active.master_enable =>
                \A l \in 1..Len(active.transport_params) :
                    "auto" \notin LegValues(connection_resources[id].type,
                                            active.transport_params[l])

Is05Ops == {"is05_activate_sender", "is05_activate_receiver"}

\* the resource the last IS-05 activation addressed
Is05Target ==
    IF last.op = "is05_activate_sender" THEN SenderId(last.id) ELSE ReceiverId(last.id)

\* the connection resources whose active master_enable the last operation changed
CrossedActiveBoundary ==
    {x \in DOMAIN connection_resources \cap DOMAIN pre.connection_resources :
        connection_resources[x].data.endpoint_active.master_enable #
            pre.connection_resources[x].data.endpoint_active.master_enable}

\* C12: every change of a sender's or receiver's active master_enable, by an IS-05
\* activation or by a host-initiated activate, comes with exactly one invocation of
\* the activation callback for that internal id, with an SDP when the resource became
\* active and the null SDP when it became inactive.
C12_BoundaryChangeCallsBack ==
    \A x \in CrossedActiveBoundary :
        (last.op \in Is05Ops \cup {"activate"}) =>
            /\ Len(delivered) = 1
            /\ delivered[1].id = x[2]
            /\ (delivered[1].sdp.kind = "null") <=>
                   ~connection_resources[x].data.endpoint_active.master_enable

\* C12 as amended: an IS-05 activation makes exactly one invocation of the callback,
\* for the internal id of the activated resource, with the null SDP exactly when the
\* active endpoint is disabled; a facade call (activate, add, remove) makes none.
C12_Is05ActivationCallsBackOnce ==
    /\ last.op \in Is05Ops =>
           /\ Len(delivered) = 1
           /\ delivered[1].id = last.id
           /\ (delivered[1].sdp.kind = "null") <=>
                  ~connection_resources[Is05Target].data.endpoint_active.master_enable
    /\ last.op \notin Is05Ops => delivered = <<>>

\* C12 case: a sender the host had activated is deactivated by an IS-05 activation
C12_Witness ==
    /\ last2.op = "activate" /\ last2.ret /\ last2.sdp.kind = "sdp"
    /\ last.op = "is05_activate_sender" /\ last.id = last2.id
    /\ SenderId(last.id) \in CrossedActiveBoundary
    /\ SenderId(last.id) \in DOMAIN pre2.connection_resources
    /\ ~pre2.connection_resources[SenderId(last.id)].data.endpoint_active.master_enable
    /\ delivered = << Callback(last.id, NullCallbackSdp) >>

\* the SDP the resource of the last IS-05 activation was added with
Is05Config ==
    IF last.op = "is05_activate_sender" THEN settings.senders[Is05Target]
    ELSE settings.receivers[Is05Target]

\* C13: every activation callback delivered carries the internal id the resource was
\* added with; its SDP is null exactly when the active master_enable is false;
\* otherwise the SDP's x-nvnmos-id is that id, leg k carries x-nvnmos-iface-ip equal
\* to the active interface_ip (receiver) or source_ip (sender) of leg k, and
\* a=inactive is on exactly the legs whose active rtp_enabled is false.
C13_CallbackMatchesActive ==
    \A k \in 1..Len(delivered) :
        LET cb == delivered[k]
            active == connection_resources[Is05Target].data.endpoint_active
            type == connection_resources[Is05Target].type
        IN  /\ cb.id = Is05Config.internal_id
            /\ (cb.sdp.kind = "null") <=> ~active.master_enable
            /\ active.master_enable =>
                   /\ cb.sdp.internal_id = cb.id
                   /\ Len(cb.sdp.media_descriptions) = Len(active.transport_params)
                   /\ \A l \in 1..Len(active.transport_params) :
                         LET md == cb.sdp.media_descriptions[l]
                             tp == active.transport_params[l]
                         IN  /\ md.iface_ip = IF type = "receiver" THEN tp.interface_ip
                                              ELSE tp.source_ip
                             /\ md.inactive <=> ~tp.rtp_enabled

\* C13 case: a two-legged receiver activated by IS-05 with its second leg disabled
C13_Witness ==
    /\ last.op = "is05_activate_receiver"
    /\ Len(delivered) = 1
    /\ delivered[1].sdp.kind = "sdp"
    /\ Len(delivered[1].sdp.media_descriptions) = 2
    /\ ~delivered[1].sdp.media_descriptions[1].inactive
    /\ delivered[1].sdp.media_descriptions[2].inactive
    /\ delivered[1].sdp.media_descriptions[2].iface_ip = "192.0.2.11"

FacadeOps == {"add_sender", "add_receiver", "remove_sender", "remove_receiver", "activate"}

\* C16: each call of a public model operation emits exactly one change notification
\* at its exit, after its last store mutation, so that every store mutation made by a
\* call is followed by a notification from that same call.
C16_MutationIsNotified ==
    (last.op \in FacadeOps /\ Stores # pre) => notified = 1

\* every resource of the store that the last operation created or changed has a
\* version above all versions its id had in any earlier state
VersionsAdvance(resources, before, highest) ==
    \A id \in DOMAIN resources :
        (id \notin DOMAIN before \/ resources[id] # before[id]) =>
            (id \in DOMAIN highest => resources[id].version > highest[id])

\* C17: for every resource id, over any sequence of add, remove, re-add and activate,
\* each version observed is strictly greater than every version observed before for
\* that id, and an operation that changes the resource's data changes its version.
C17_VersionsStrictlyIncrease ==
    /\ VersionsAdvance(node_resources, pre.node_resources, seen.node_resources)
    /\ VersionsAdvance(connection_resources, pre.connection_resources,
                       seen.connection_resources)

\* C17 case: a sender that was removed has been added again
C17_Witness ==
    /\ last.op = "add_sender" /\ last.ret
    /\ SenderId(last.id) \in DOMAIN seen.node_resources
    /\ SenderId(last.id) \notin DOMAIN pre.node_resources
    /\ SenderId(last.id) \in DOMAIN seen.connection_resources
    /\ node_resources[SenderId(last.id)].version > seen.node_resources[SenderId(last.id)]

\* the last facade call succeeded and mutated a sender or receiver
MutatingCall ==
    /\ last.op \in FacadeOps /\ last.ret
    /\ last.op = "activate" => Known(pre.node_resources, last.id)

\* C18: every operation that mutates a resource increments that resource's version
\* and its parent's: add_sender/add_receiver, remove_sender/remove_receiver and the
\* host-initiated activate each increment the version of the parent device.
C18_MutationBumpsDevice ==
    MutatingCall =>
        node_resources[device_id].version > pre.node_resources[device_id].version

\* C18 as amended: a successful add or remove increments the version of the device;
\* a successful activate of an existing sender or receiver increments the version of
\* that resource and of its connection resource and leaves the device as it was.
C18_AddRemoveBumpDevice ==
    MutatingCall =>
        IF last.op = "activate"
        THEN LET id == Target(pre.node_resources, last.id)
             IN  /\ node_resources[id].version > pre.node_resources[id].version
                 /\ connection_resources[id].version > pre.connection_resources[id].version
                 /\ node_resources[device_id] = pre.node_resources[device_id]
        ELSE node_resources[device_id].version > pre.node_resources[device_id].version

\* C18 case: a sender has been added and then activated by the host
C18_Witness ==
    /\ last2.op = "add_sender" /\ last2.ret
    /\ last.op = "activate" /\ last.ret /\ last.id = last2.id /\ last.sdp.kind = "sdp"
    /\ node_resources[device_id].version = pre.node_resources[device_id].version
    /\ pre.node_resources[device_id].version > pre2.node_resources[device_id].version

\* a sender was removed and the next call adds it again with the SDP it had
RemovedThenReAdded ==
    /\ last2.op = "remove_sender" /\ last2.ret
    /\ last.op = "add_sender" /\ last.id = last2.id
    /\ SenderId(last2.id) \in DOMAIN pre2.settings.senders
    /\ last.sdp = pre2.settings.senders[SenderId(last2.id)]

\* C19: for a fixed seed the ids derived for the source, flow and sender of an
\* internal id are the same every time: removing a sender and adding it again with
\* the same SDP succeeds, yields the same source, flow, sender and connection sender
\* ids, and a sender version strictly greater than before the removal.
C19_ReAddYieldsSameIds ==
    RemovedThenReAdded =>
        LET id == SenderId(last.id)
            was == pre2.node_resources[id]
        IN  /\ last.ret
            /\ DOMAIN node_resources = DOMAIN pre2.node_resources
            /\ DOMAIN connection_resources = DOMAIN pre2.connection_resources
            /\ node_resources[id].data.flow_id = was.data.flow_id
            /\ node_resources[was.data.flow_id].data.source_id =
                   pre2.node_resources[was.data.flow_id].data.source_id
            /\ node_resources[id].version > was.version

\* C19 case: the sender of the configuration was removed and added again
C19_Witness ==
    /\ RemovedThenReAdded /\ last.ret
    /\ SenderId(last.id) \notin DOMAIN pre.node_resources
    /\ <<"flow", last.id>> \notin DOMAIN pre.node_resources
    /\ <<"source", last.id>> \in DOMAIN node_resources

\* the name "/x-nmos/node/" + kind + "/" + internal_id of the resource kept under id
ResourceName(id) == "/x-nmos/node/" \o id[1] \o "/" \o id[2]

AllIds == DOMAIN node_resources \cup DOMAIN connection_resources

Consistent(st) ==
    LET nr == st.node_resources
    IN  /\ \A id \in IdsOfType(nr, "sender") :
               /\ has_resource(nr, nr[id].data.flow_id, "flow")
               /\ has_resource(nr, nr[nr[id].data.flow_id].data.source_id, "source")
               /\ id \in DOMAIN st.connection_resources
        /\ \A id \in IdsOfType(nr, "receiver") : id \in DOMAIN st.connection_resources
        /\ \A id \in RangeOf(nr[device_id].data.senders) : has_resource(nr, id, "sender")
        /\ \A id \in RangeOf(nr[device_id].data.receivers) : has_resource(nr, id, "receiver")

\* the threads that are inside a mutating operation
InOperation == {th \in Threads : pc[th] \notin {"idle", "reading"}}

\* while the activation callback runs the activation thread holds the write lock and
\* every other thread waits outside its operation
CallbackHoldsLock ==
    pc["activation"] \in {"callback", "blocked"} =>
        /\ lock.writer = "activation"
        /\ lock.readers = {}
        /\ \A th \in Threads \ {"activation"} : pc[th] = "idle"

C15_ReadersSeeNoIntermediateState ==
    /\ \A th \in InOperation : lock.writer = th /\ lock.readers = {}
    /\ Cardinality(InOperation) <= 1
    /\ pc["reader"] = "reading" =>
           /\ "reader" \in lock.readers
           /\ Consistent(Stores)
           /\ Stores = running["reader"].pre
    /\ Consistent(running["reader"].pre)

\* C15 case: a reader holds the read lock after a sender was removed, while both
\* threads of the host have made a call
C15_Witness ==
    /\ pc["reader"] = "reading"
    /\ last.op = "remove_sender" /\ last.ret
    /\ last2.op \in FacadeOps
    /\ running["host1"].call.op \in FacadeOps
    /\ running["host2"].call.op \in FacadeOps

\* the stores are between two writes of an operation
IntermediateState == ~Consistent(Stores)

\* the PTP clock references of either form that an SDP carries on any leg
PtpRefs(sdp) ==
    LET ts_refclks == get_session_description_ts_refclks(sdp)
    IN  {r \in UNION {RangeOf(ts_refclks[leg]) : leg \in 1..Len(ts_refclks)} :
            IsPtpGm(r) \/ IsPtpTraceable(r)}

\* those of them that name a grandmaster
PtpGmRefs(sdp) == {r \in PtpRefs(sdp) : IsPtpGm(r)}

\* the node's clock of the given name
NodeClock(resources, name) ==
    LET clocks == resources[node_id].data.clocks
    IN  clocks[CHOOSE i \in 1..Len(clocks) : clocks[i].name = name]

\* C21: after a successful add_sender whose SDP carries a PTP ts-refclk with a
\* grandmaster id, the node's clock clk0 is a PTP clock whose gmid is the lower-case
\* form of that grandmaster id.
C21_PtpSenderMakesPtpClock ==
    (last.op = "add_sender" /\ last.ret /\ PtpGmRefs(last.sdp) # {}) =>
        /\ NodeClock(node_resources, "clk0").ref_type = "ptp"
        /\ NodeClock(node_resources, "clk0").gmid \in
               {to_lower_copy(r.ptp_server.gmid) : r \in PtpGmRefs(last.sdp)}

\* C22: when the last sender whose SDP carried a PTP ts-refclk is removed by
\* remove_sender, the node's clock clk0 is replaced by an internal clock of the
\* same name.
C22_LastPtpSenderRemovedMakesInternalClock ==
    (/\ last.op = "remove_sender" /\ last.ret
     /\ PtpRefs(pre.settings.senders[SenderId(last.id)]) # {}
     /\ \A id \in DOMAIN settings.senders : PtpRefs(settings.senders[id]) = {}) =>
        NodeClock(node_resources, "clk0") = make_internal_clock("clk0")

\* C23: from creation on, after any sequence of add, remove and activate operations,
\* the store holds exactly one node and exactly one device, their ids never change,
\* no operation erases them, and the node's clocks[] contains the entry named clk0
\* (internal, with empty interfaces[], right after a creation without senders or
\* receivers).
C23_OneNodeOneDeviceAndClk0 ==
    /\ IdsOfType(node_resources, "node") = {node_id}
    /\ IdsOfType(node_resources, "device") = {device_id}
    /\ node_resources[device_id].data.node_id = node_id
    /\ make_uuid(settings.seed_id, node_id) = make_uuid(pre.settings.seed_id, node_id)
    /\ make_uuid(settings.seed_id, device_id) = make_uuid(pre.settings.seed_id, device_id)
    /\ \E i \in 1..Len(node_resources[node_id].data.clocks) :
           node_resources[node_id].data.clocks[i].name = "clk0"
    /\ (ncalls = 0 /\ DOMAIN settings.senders = {} /\ DOMAIN settings.receivers = {}) =>
           /\ node_resources[node_id].data.clocks = << make_internal_clock("clk0") >>
           /\ node_resources[node_id].data.interfaces = <<>>

\* C23 case: the last sender or receiver was removed after an activation changed the
\* node's clock
C23_Witness ==
    /\ last.op \in {"remove_sender", "remove_receiver"} /\ last.ret
    /\ last2.op = "activate" /\ last2.ret
    /\ DOMAIN settings.senders = {} /\ DOMAIN settings.receivers = {}
    /\ node_resources[device_id].data.senders = <<>>
    /\ node_resources[device_id].data.receivers = <<>>
    /\ NodeClock(node_resources, "clk0").ref_type = "ptp"

\* a sender's or receiver's data apart from its subscription
WithoutSubscription(resource) ==
    [resource.data EXCEPT !.subscription = [connected_id |-> "null", active |-> FALSE]]

\* C24: nmos_connection_rtp_activate never changes the media format of a sender or
\* receiver: whatever the activation SDP carries, the sources, the flows and the
\* senders' and receivers' own data (flow_id, format, media types, interface
\* bindings, label, tags) are unchanged; only the target's connection resource
\* (version, active endpoint, transportfile), the target's subscription and version
\* and, for a sender, the node's clock and version change.
C24_ActivateKeepsFormat ==
    last.op = "activate" =>
        /\ DOMAIN node_resources = DOMAIN pre.node_resources
        /\ DOMAIN connection_resources = DOMAIN pre.connection_resources
        /\ settings.senders = pre.settings.senders
        /\ settings.receivers = pre.settings.receivers
        /\ \A id \in DOMAIN node_resources :
              LET r == node_resources[id]
                  p == pre.node_resources[id]
              IN  /\ r.type = p.type
                  /\ r.type \in {"source", "flow", "device"} => r = p
                  /\ r.type \in {"sender", "receiver"} =>
                         /\ WithoutSubscription(r) = WithoutSubscription(p)
                         /\ id # Target(pre.node_resources, last.id) => r = p
                  /\ r.type = "node" =>
                         /\ r.data.interfaces = p.data.interfaces
                         /\ SenderId(last.id) \notin DOMAIN pre.node_resources => r = p
        /\ \A id \in DOMAIN connection_resources :
              LET c == connection_resources[id]
                  p == pre.connection_resources[id]
              IN  /\ c.type = p.type
                  /\ c.data.endpoint_constraints = p.data.endpoint_constraints
                  /\ c.data.endpoint_staged = p.data.endpoint_staged
                  /\ id # Target(pre.node_resources, last.id) => c = p

\* C24 case: a sender added with the audio SDP was activated with the two-leg video
\* SDP, which changed its active legs
C24_Witness ==
    /\ last.op = "activate" /\ last.ret /\ last.id = "sink-1" /\ last.sdp = VideoDual
    /\ SenderId("sink-1") \in DOMAIN node_resources
    /\ node_resources[make_id("flow", "sink-1")].data.media_type = "audio/L24"
    /\ Len(connection_resources[SenderId("sink-1")].data.endpoint_active.transport_params) = 2
    /\ node_resources[SenderId("sink-1")].data.subscription.active

\* the names of the session-level attributes, media-level attributes and format
\* specific parameters of a sender's /transportfile
TransportfileNames(transportfile) ==
    RangeOf(transportfile.session_attributes) \cup RangeOf(transportfile.fmtp) \cup
    UNION {RangeOf(transportfile.media_attributes[leg]) :
              leg \in 1..Len(transportfile.media_attributes)}

\* C25: after any activation of a sender (IS-05 or host-initiated), the sender's
\* transportfile contains no session-level attribute, media-level attribute or fmtp
\* parameter whose name starts with x-nvnmos-, whichever custom attributes and fmtp
\* parameters the SDP used at add time and the SDP used at activation contained.
C25_TransportfileHasNoCustomNames ==
    \A id \in IdsOfType(connection_resources, "sender") :
        \A name \in TransportfileNames(connection_resources[id].data.endpoint_transportfile) :
            ~starts_with_x_nvnmos(name)

\* C25 case: a sender added with custom fmtp parameters was activated by the host with
\* an SDP that carries them too and then through IS-05, and its transportfile keeps
\* the other parameters
C25_Witness ==
    /\ last.op = "is05_activate_sender" /\ last.ret
    /\ last2.op = "activate" /\ last2.ret /\ last2.id = last.id
    /\ "x-nvnmos-transport-bit-rate" \in RangeOf(last2.sdp.fmtp)
    /\ SenderId(last.id) \in DOMAIN connection_resources
    /\ settings.senders[SenderId(last.id)].fmtp = JxsvFmtp
    /\ connection_resources[SenderId(last.id)].data.endpoint_transportfile.present
    /\ connection_resources[SenderId(last.id)].data.endpoint_transportfile.fmtp = << "profile" >>

\* C27: remove_sender (remove_receiver) with an internal id for which no sender
\* (receiver) exists returns false and leaves both stores and the settings unchanged;
\* remove_sender with the internal id of an existing receiver does not remove that
\* receiver, and the other way round.
C27_RemoveUnknownIdFails ==
    /\ (last.op = "remove_sender" /\ SenderId(last.id) \notin DOMAIN pre.node_resources) =>
           ~last.ret /\ Stores = pre
    /\ (last.op = "remove_receiver" /\ ReceiverId(last.id) \notin DOMAIN pre.node_resources) =>
           ~last.ret /\ Stores = pre

\* C27 case: remove_sender was called with the internal id of a receiver and no
\* sender of that id; the receiver and its connection receiver are still there
C27_Witness ==
    /\ last.op = "remove_sender" /\ ~last.ret
    /\ SenderId(last.id) \notin DOMAIN pre.node_resources
    /\ ReceiverId(last.id) \in DOMAIN pre.node_resources
    /\ ReceiverId(last.id) \in DOMAIN node_resources
    /\ ReceiverId(last.id) \in DOMAIN connection_resources
    /\ ReceiverId(last.id) \in DOMAIN settings.receivers

\* the legs after are the legs before with "auto" resolved as the claim says
ResolvedAs(id, type, interface_ips, before, after) ==
    /\ Len(after) = Len(before)
    /\ \A leg \in 1..Len(before) :
          /\ DOMAIN after[leg] = DOMAIN before[leg]
          /\ after[leg].rtp_enabled = before[leg].rtp_enabled
          /\ \A f \in DOMAIN before[leg] \ {"rtp_enabled"} :
                 before[leg][f] # "auto" => after[leg][f] = before[leg][f]
          /\ (type = "sender" /\ before[leg].source_ip = "auto") =>
                 after[leg].source_ip = interface_ips[leg]
          /\ (type = "sender" /\ before[leg].destination_ip = "auto") =>
                 after[leg].destination_ip =
                     make_source_specific_multicast_address_v4(id, leg - 1)
          /\ (type = "receiver" /\ before[leg].interface_ip = "auto") =>
                 after[leg].interface_ip = interface_ips[leg]

\* the interface IP the SDP given to add had for each leg
InterfaceIps(sdp) ==
    [leg \in 1..Len(sdp.media_descriptions) |-> sdp.media_descriptions[leg].iface_ip]

\* C30: the auto resolver, applied at add time and at IS-05 activation, replaces in
\* each leg of a sender a source_ip of "auto" by the interface IP the original SDP
\* gave for that leg and a destination_ip of "auto" by the source-specific multicast
\* address derived from (sender id, leg); in each leg of a receiver an interface_ip
\* of "auto" by the original SDP's interface IP for that leg; values that are not
\* "auto" are left unchanged.
C30_AutoIsResolved ==
    /\ (last.op \in {"add_sender", "add_receiver"} /\ last.ret) =>
          LET type == IF last.op = "add_sender" THEN "sender" ELSE "receiver"
              id == make_id(type, last.id)
              conn == connection_resources[id]
          IN  ResolvedAs(id, type, InterfaceIps(last.sdp),
                         make_connection_rtp(type, Len(last.sdp.media_descriptions) > 1,
                                             now).data.endpoint_active.transport_params,
                         conn.data.endpoint_active.transport_params)
    /\ (last.op \in Is05Ops /\ last.ret) =>
          LET type == IF last.op = "is05_activate_sender" THEN "sender" ELSE "receiver"
              id == make_id(type, last.id)
              conn == connection_resources[id]
              sdp == IF type = "sender" THEN settings.senders[id]
                     ELSE settings.receivers[id]
          IN  ResolvedAs(id, type, InterfaceIps(sdp),
                         conn.data.endpoint_staged.transport_params,
                         conn.data.endpoint_active.transport_params)

\* C30 case: an IS-05 activation of a two-leg sender whose staged first leg had an
\* explicit destination and "auto" for the rest
C30_Witness ==
    /\ last.op = "is05_activate_sender" /\ last.ret
    /\ LET conn == connection_resources[SenderId(last.id)]
           staged == conn.data.endpoint_staged.transport_params
           active == conn.data.endpoint_active.transport_params
       IN  /\ Len(staged) = 2
           /\ staged[1].destination_ip = PatchedAddress
           /\ staged[1].source_ip = "auto" /\ staged[2].destination_ip = "auto"
           /\ active[1].destination_ip = PatchedAddress
           /\ active[1].source_ip = "192.0.2.10"
           /\ active[2].source_ip = "192.0.2.11"
           /\ active[2].destination_ip = "232.11.1.11"

\* ---- input-validation failures and the log ----

\* severities at error or above
Failures == {"error", "severe", "fatal"}

\* the last call was an add refused for a null SDP, a leg without a host interface
\* or an id already present
InputValidationError ==
    /\ last.op \in {"add_sender", "add_receiver"}
    /\ ~last.ret
    /\ \/ last.sdp.kind = "null"
       \/ /\ last.sdp.kind = "sdp"
          /\ Len(last.sdp.media_descriptions) > 0
          /\ get_format(last.sdp.media_type) # "error"

\* C28: whenever add_sender or add_receiver fails on an input-validation error (a null
\* SDP, a leg with no matching host interface, a duplicate id), a message at level
\* error, or above it, was handed to the log gate before the call returned false
C28_ValidationFailureIsLogged ==
    InputValidationError => \E i \in 1..Len(logged) : logged[i].level \in Failures

\* ---- the facade functions with their pointer arguments ----

MaxFacadeCalls == 3

\* a pointer argument of a facade function
Pointers == {"null", "given"}

\* the configurations given to create; the last has a sender without SDP
FacadeConfigs ==
    { [seed |-> "nmos-api.local:8080", receivers |-> <<>>, senders |-> <<>>],
      [seed |-> "nmos-api.local:8080", receivers |-> <<>>, senders |-> << VideoPtp >>],
      [seed |-> "nmos-api.local:8080", receivers |-> << AudioPlain >>,
       senders |-> << NullSdp >>] }

\* the SDPs given to add and activate
FacadeSdps == {VideoPtp, AudioPlain, NoInterface, NullSdp}

\* a server whose impl is null has no stores
NoServer == [node_resources |-> EmptyStore, connection_resources |-> EmptyStore,
             settings |-> EmptyStore]

\* create_nmos_node_server: if (!config || !server) return false
create_rejects(server_arg, config_arg) == config_arg = "null" \/ server_arg = "null"

\* add, remove, activate: if (!server) .. if (!impl) .. if (!config) return false
facade_rejects(server_arg, impl, arg) == server_arg = "null" \/ ~impl \/ arg = "null"

\* variant: the catch block returns true
facade_returns_true(exception) == TRUE

\* try { ...; return true; } catch (...) { return false; }
facade_returns(exception) == exception = "none"

\* variant: destroy leaves the pointer
destroy_impl_kept(impl) == impl

\* destroy_nmos_node_server: delete impl; server->impl = 0
destroy_impl(impl) == FALSE

\* the stores reached through server->impl
ServerStores(impl, st) == IF impl THEN st ELSE NoServer

\* the end of a facade call: the stores reached through the server, server->impl,
\* the return value and the messages logged
FacadeFinish(call, pointers, st, impl, notifications, log, history) ==
    /\ ncalls < MaxFacadeCalls
    /\ node_resources' = st.node_resources
    /\ connection_resources' = st.connection_resources
    /\ settings' = st.settings
    /\ now' = now + 1
    /\ ncalls' = ncalls + 1
    /\ last' = call
    /\ pre' = Stores
    /\ last2' = last
    /\ pre2' = pre
    /\ delivered' = <<>>
    /\ notified' = notifications
    /\ seen' = history
    /\ server' = [impl |-> impl]
    /\ logged' = log
    /\ facade' = pointers
    /\ UNCHANGED <<lock, pc, todo, running>>

\* a facade call that returns false at one of its null checks
FacadeRejected(op, server_arg, arg) ==
    FacadeFinish(Call(op, "", NullSdp, FALSE),
                 Facade(server_arg, arg, "none", server.impl),
                 Stores, server.impl, 0, <<>>, seen)

\* create_nmos_node_server behind its null check: the node constructed from the
\* configuration, or the exception of the constructor
FacadeConstruct(server_arg, config_arg, config, thrown, s) ==
    IF thrown.exception = "none"
    THEN FacadeFinish(Call("create", "", NullSdp, facade_returns(thrown.exception)),
                      Facade(server_arg, config_arg, thrown.exception, server.impl),
                      StoresOf(s), TRUE,
                      1 + Len(config.receivers) + Len(config.senders),
                      thrown.log,
                      [node_resources |-> EmptyStore, connection_resources |-> EmptyStore])
    ELSE FacadeFinish(Call("create", "", NullSdp, facade_returns(thrown.exception)),
                      Facade(server_arg, config_arg, thrown.exception, server.impl),
                      Stores, server.impl, 0, thrown.log, seen)

\* create_nmos_node_server
FacadeCreate ==
    \E server_arg \in Pointers, config_arg \in Pointers, config \in FacadeConfigs :
        IF create_rejects(server_arg, config_arg)
        THEN FacadeRejected("create", server_arg, config_arg)
        ELSE FacadeConstruct(server_arg, config_arg, config,
                             construct_exception(config, now), ConstructAt(config, now))

\* destroy_nmos_node_server
FacadeDestroy ==
    \E server_arg \in Pointers :
        IF server_arg = "null"
        THEN FacadeRejected("destroy", server_arg, "given")
        ELSE FacadeFinish(Call("destroy", "", NullSdp, TRUE),
                          Facade(server_arg, "given", "none", server.impl),
                          ServerStores(destroy_impl(server.impl), Stores),
                          destroy_impl(server.impl), 0,
                          IF server.impl
                          THEN << Log("info", "Closing connections"),
                                  Log("info", "Stopping NvNmos node") >>
                          ELSE <<>>,
                          [node_resources |-> EmptyStore,
                           connection_resources |-> EmptyStore])

\* add, remove and activate behind their null checks: what the operation left in the
\* stores, and false if it threw
FacadeOperation(op, server_arg, arg, id, sdp, r) ==
    IF facade_rejects(server_arg, server.impl, arg)
    THEN FacadeRejected(op, server_arg, arg)
    ELSE LET thrown == operation_exception(op, id, sdp, Stores)
         IN  FacadeFinish(Call(op, id, sdp, facade_returns(thrown.exception)),
                          Facade(server_arg, arg, thrown.exception, server.impl),
                          StoresOf(r),
                          server.impl,
                          IF thrown.exception = "none" THEN 1 ELSE 0,
                          thrown.log \o log_current_exception(thrown.exception),
                          [node_resources |->
                               Observe(seen.node_resources, node_resources),
                           connection_resources |->
                               Observe(seen.connection_resources, connection_resources)])

\* add_nmos_sender_to_node_server
FacadeAddSender ==
    \E server_arg \in Pointers, config_arg \in Pointers, sdp \in FacadeSdps :
        FacadeOperation("add_sender", server_arg, config_arg, sdp.internal_id, sdp,
                        add_sender_(Stores, sdp, HostInterfaces, now + 1))

\* add_nmos_receiver_to_node_server
FacadeAddReceiver ==
    \E server_arg \in Pointers, config_arg \in Pointers, sdp \in FacadeSdps :
        FacadeOperation("add_receiver", server_arg, config_arg, sdp.internal_id, sdp,
                        add_receiver_(Stores, sdp, HostInterfaces, now + 1))

\* remove_nmos_sender_from_node_server
FacadeRemoveSender ==
    \E server_arg \in Pointers, id_arg \in Pointers, id \in InternalIds :
        FacadeOperation("remove_sender", server_arg, id_arg, id, NullSdp,
                        remove_connection_(Stores, "sender", id, HostInterfaces, now + 1))

\* remove_nmos_receiver_from_node_server
FacadeRemoveReceiver ==
    \E server_arg \in Pointers, id_arg \in Pointers, id \in InternalIds :
        FacadeOperation("remove_receiver", server_arg, id_arg, id, NullSdp,
                        remove_connection_(Stores, "receiver", id, HostInterfaces, now + 1))

\* const char* sdp of nmos_connection_rtp_activate: if (!sdp) sdp = ""
sdp_or_empty(sdp) == IF sdp.kind = "null" THEN EmptySdp ELSE sdp

\* nmos_connection_rtp_activate
FacadeActivate ==
    \E server_arg \in Pointers, id_arg \in Pointers, id \in InternalIds,
       sdp \in {NullSdp, VideoPtp, GarbageSdp} :
        FacadeOperation("activate", server_arg, id_arg, id, sdp_or_empty(sdp),
                        activate_rtp_connection_(Stores, id, sdp_or_empty(sdp), now + 1))

\* a zeroed NvNmosNodeServer before the first create
FacadeInit ==
    /\ node_resources = NoServer.node_resources
    /\ connection_resources = NoServer.connection_resources
    /\ settings = NoServer.settings
    /\ now = 0
    /\ ncalls = 0
    /\ last = Call("none", "", NullSdp, TRUE)
    /\ pre = NoServer
    /\ last2 = Call("none", "", NullSdp, TRUE)
    /\ pre2 = NoServer
    /\ delivered = <<>>
    /\ notified = 0
    /\ seen = [node_resources |-> EmptyStore, connection_resources |-> EmptyStore]
    /\ lock = FreeLock
    /\ pc = [th \in Threads |-> "idle"]
    /\ todo = [th \in Threads |-> <<>>]
    /\ running = [th \in Threads |->
                     Operation(Call("none", "", NullSdp, TRUE), NoServer, <<>>, "none")]
    /\ server = [impl |-> FALSE]
    /\ logged = <<>>
    /\ facade = Facade("given", "given", "none", FALSE)

FacadeNext ==
    \/ FacadeCreate
    \/ FacadeDestroy
    \/ FacadeAddSender
    \/ FacadeAddReceiver
    \/ FacadeRemoveSender
    \/ FacadeRemoveReceiver
    \/ FacadeActivate

FacadeSpec == FacadeInit /\ [][FacadeNext]_vars

\* a call of add, remove or activate
FacadeOperations ==
    {"add_sender", "add_receiver", "remove_sender", "remove_receiver", "activate"}

\* the last call was given a null pointer
NullInput == facade.server = "null" \/ facade.arg = "null"

\* C26: create returns false for a null config or server; add, remove and activate
\* return false and leave every store as it was for a null server, a null
\* server->impl or a null config or id; and a call of create, add, remove or activate
\* in which the engine threw returns false
C26_FacadeRejectsNullAndCatches ==
    /\ (last.op = "create" /\ NullInput) => (~last.ret /\ Stores = pre)
    /\ (last.op \in FacadeOperations /\ (NullInput \/ ~facade.impl))
           => (~last.ret /\ Stores = pre)
    /\ (last.op \in FacadeOperations \cup {"create"} /\ facade.exception # "none")
           => ~last.ret

\* reached: an add that threw for a sender without SDP, after a rejected call
C26_Witness ==
    /\ last.op = "add_sender"
    /\ facade.exception = "std::logic_error"
    /\ ~last.ret
    /\ last2.op \in FacadeOperations
    /\ ~last2.ret
    /\ pre = pre2
    /\ server.impl

\* C29: after destroy returns, server->impl is null; while it is null every add,
\* remove and activate returns false without effect, and it stays null until a
\* create succeeds; destroy on a server already destroyed returns true and changes
\* nothing; a create that fails leaves server->impl as it was
C29_DestroyedServerRejectsCalls ==
    /\ (last.op = "destroy" /\ facade.server # "null") => (last.ret /\ ~server.impl)
    /\ (last.op \in FacadeOperations /\ ~facade.impl)
           => (~last.ret /\ Stores = pre /\ ~server.impl)
    /\ (~facade.impl /\ server.impl) => (last.op = "create" /\ last.ret)
    /\ (last.op = "destroy" /\ facade.server # "null" /\ ~facade.impl)
           => (last.ret /\ Stores = pre)
    /\ (last.op = "create" /\ ~last.ret)
           => (server.impl = facade.impl /\ Stores = pre)

\* reached: an add refused after destroy, on a server that had a node
C29_Witness ==
    /\ last.op \in FacadeOperations
    /\ facade.server = "given"
    /\ facade.arg = "given"
    /\ ~last.ret
    /\ last2.op = "destroy"
    /\ last2.ret
    /\ pre2 # NoServer
    /\ ~server.impl

\* C31: an add or remove after which the node's interfaces[] and clocks[] are what
\* they were before leaves the node resource, its version included, as it was: the
\* node is modified only when its interfaces[] or a clock actually differ
C31_NodeModifiedOnlyOnChange ==
    (/\ last.op \in {"add_sender", "add_receiver", "remove_sender", "remove_receiver"}
     /\ node_resources[node_id].data.interfaces = pre.node_resources[node_id].data.interfaces
     /\ node_resources[node_id].data.clocks = pre.node_resources[node_id].data.clocks)
        => node_resources[node_id] = pre.node_resources[node_id]

\* reached: a second sender was added on an interface already bound, with an SDP
\* that derives the clock already recorded
C31_Witness ==
    /\ last.op = "add_sender" /\ last.ret
    /\ IdsOfType(pre.node_resources, "sender") # {}
    /\ IdsOfType(node_resources, "sender") # IdsOfType(pre.node_resources, "sender")
    /\ node_resources[node_id].data.interfaces # <<>>
    /\ node_resources[node_id] = pre.node_resources[node_id]

\* the grandmaster references of the SDP that carry a PTP domain
PtpDomains(sdp) == {r.ptp_server.domain : r \in {g \in PtpGmRefs(sdp) : g.ptp_server.colon}}

\* C32: the clock an add_sender derives from the ts-refclk attributes of its SDP, a
\* leg without ts-refclk using the session's: a PTP clock with the lower-cased gmid
\* of a grandmaster reference whenever any leg has one, the PTP domain being the
\* reference's if it has one and else the one recorded before; a PTP clock with gmid
\* ff-ff-ff-ff-ff-ff-ff-ff and traceable when only the traceable form is present; an
\* internal clock when no leg has a PTP reference
C32_ClockDerivedFromAnyLeg ==
    (last.op = "add_sender" /\ last.ret) =>
        LET clock == NodeClock(node_resources, "clk0")
            domain == ptp_domain_number(settings, "clk0")
            before == ptp_domain_number(pre.settings, "clk0")
        IN  /\ PtpGmRefs(last.sdp) # {} =>
                   /\ clock.ref_type = "ptp"
                   /\ clock.gmid \in {to_lower_copy(r.ptp_server.gmid) : r \in PtpGmRefs(last.sdp)}
                   /\ domain \in PtpDomains(last.sdp) \cup {before}
                   /\ (\A r \in PtpGmRefs(last.sdp) : r.ptp_server.colon)
                          => domain \in PtpDomains(last.sdp)
            /\ (PtpGmRefs(last.sdp) = {} /\ PtpRefs(last.sdp) # {}) =>
                   /\ clock = make_ptp_clock("clk0", TRUE, "ff-ff-ff-ff-ff-ff-ff-ff", TRUE)
                   /\ domain = before
            /\ PtpRefs(last.sdp) = {} =>
                   /\ clock = make_internal_clock("clk0")
                   /\ domain = before

\* ---- the SDP codec: parsing an internal-form SDP and emitting it again ----

\* the media descriptions of the internal-form SDPs: with and without
\* x-nvnmos-src-port, the port also written with a leading zero, with and without
\* a=inactive
CodecLegs ==
    { MediaDescription("192.0.2.10", "233.252.0.0", "5020", src_port, inactive, <<>>) :
          src_port \in {"none", "5004", "05004"}, inactive \in BOOLEAN }

\* the internal-form SDPs: one or two legs, with and without x-nvnmos-group-hint and
\* session information
CodecSdps ==
    { [SessionDescription("sink-0", "video/raw", "video", <<>>, mds)
           EXCEPT !.group_hint = group_hint, !.information = information] :
          mds \in {<< first >> : first \in CodecLegs}
                      \cup {<< first, second >> : first \in CodecLegs, second \in CodecLegs},
          group_hint \in {"", "group:0"}, information \in {"", "info"} }

\* impl::get_session_description_internal_id: the value of x-nvnmos-id, else ""
get_session_description_internal_id(sdp) == sdp.internal_id

\* impl::get_session_description_group_hint: the value of x-nvnmos-group-hint, else ""
get_session_description_group_hint(sdp) == sdp.group_hint

\* impl::get_session_description_session_info
get_session_description_session_info(sdp) == sdp.information

\* the internal-form SDP emitted from what was parsed from an SDP
emit_internal(type, sdp) ==
    make_session_description(type,
        get_session_description_internal_id(sdp),
        get_session_description_group_hint(sdp),
        get_session_description_session_info(sdp),
        [information |-> "", media_type |-> sdp.media_type],
        get_session_description_transport_params(type, sdp))

\* an SDP is parsed as that of a sender or receiver and emitted again; the host
\* receives the emitted SDP
RoundTrip(type) ==
    \E sdp \in CodecSdps :
        /\ last.op = "none"
        /\ last' = Call(type, sdp.internal_id, sdp, TRUE)
        /\ delivered' = << Callback(sdp.internal_id, emit_internal(type, sdp)) >>
        /\ UNCHANGED <<node_resources, connection_resources, settings, now, ncalls,
                       pre, last2, pre2, notified, seen, lock, pc, todo, running,
                       server, logged, facade>>

RoundTripSender == RoundTrip("sender")

RoundTripReceiver == RoundTrip("receiver")

CodecNext == RoundTripSender \/ RoundTripReceiver

CodecSpec == FacadeInit /\ [][CodecNext]_vars

\* the x-nvnmos-src-port of a media description read as a port number
SrcPort(md) == IF md.src_port = "none" THEN "none" ELSE istringstreamed(md.src_port)

\* the custom fields of the emitted SDP other than x-nvnmos-src-port are those of the
\* parsed one
SameCustomFields(type, sdp, emitted) ==
    /\ emitted.internal_id = sdp.internal_id
    /\ emitted.group_hint = sdp.group_hint
    /\ emitted.information = sdp.information
    /\ Len(emitted.media_descriptions) = Len(sdp.media_descriptions)
    /\ \A leg \in 1..Len(sdp.media_descriptions) :
           /\ emitted.media_descriptions[leg].iface_ip = sdp.media_descriptions[leg].iface_ip
           /\ emitted.media_descriptions[leg].inactive = sdp.media_descriptions[leg].inactive

\* C33 as stated: the emitted SDP has the same x-nvnmos-id, x-nvnmos-group-hint
\* (absent if absent), session information and per leg the same x-nvnmos-iface-ip,
\* a=inactive and, for senders, the same x-nvnmos-src-port (absent if absent)
C33_RoundTripKeepsCustomFields ==
    \A i \in 1..Len(delivered) :
        last.op \in {"sender", "receiver"} =>
            /\ SameCustomFields(last.op, last.sdp, delivered[i].sdp)
            /\ last.op = "sender" =>
                   \A leg \in 1..Len(last.sdp.media_descriptions) :
                       delivered[i].sdp.media_descriptions[leg].src_port
                           = last.sdp.media_descriptions[leg].src_port

\* C33: the emitted SDP has the same x-nvnmos-id, x-nvnmos-group-hint (absent if
\* absent), session information and per leg the same x-nvnmos-iface-ip and
\* a=inactive; for senders x-nvnmos-src-port is absent if absent and else names the
\* same port number, written in decimal without leading zeros
C33_RoundTripKeepsCustomValues ==
    \A i \in 1..Len(delivered) :
        last.op \in {"sender", "receiver"} =>
            /\ SameCustomFields(last.op, last.sdp, delivered[i].sdp)
            /\ last.op = "sender" =>
                   \A leg \in 1..Len(last.sdp.media_descriptions) :
                       /\ delivered[i].sdp.media_descriptions[leg].src_port
                              = SrcPort(last.sdp.media_descriptions[leg])
                       /\ SrcPort(delivered[i].sdp.media_descriptions[leg])
                              = SrcPort(last.sdp.media_descriptions[leg])

\* reached: a two-leg sender SDP with group hint, one leg inactive with its port
\* written with a leading zero and one leg without x-nvnmos-src-port
C33_Witness ==
    /\ last.op = "sender"
    /\ Len(delivered) = 1
    /\ last.sdp.group_hint # ""
    /\ Len(last.sdp.media_descriptions) = 2
    /\ last.sdp.media_descriptions[1].src_port = "05004"
    /\ last.sdp.media_descriptions[1].inactive
    /\ last.sdp.media_descriptions[2].src_port = "none"
    /\ delivered[1].sdp.media_descriptions[1].src_port = "5004"
    /\ delivered[1].sdp.media_descriptions[2].src_port = "none"

\* ---- the source-specific multicast address of a sender's leg ----

\* octets at and next to the ends of the range and of the block
Octets == {0, 1, 2, 231, 232, 254, 255}

\* hash values: the four low octets take every combination, the high octets two
Hashes ==
    { << high, high, 0, 255, b1, b2, b3, b4 >> :
          high \in {0, 255}, b1 \in Octets, b2 \in Octets, b3 \in Octets, b4 \in Octets }

\* one computation of the address of (id, leg) from the hash of the string
Address(id, leg, h) == [id |-> id, leg |-> leg, h |-> h, a |-> ssm_bytes(h)]

\* the address of a leg of a sender is computed, std::hash giving any value
ComputeAddress ==
    \E i \in InternalIds, leg \in {0, 1}, h \in Hashes :
        /\ last.op # "address"
        /\ last' = Call("address", i, NullSdp, TRUE)
        /\ delivered' = << Address(make_id("sender", i), leg, h) >>
        /\ UNCHANGED <<node_resources, connection_resources, settings, now, ncalls,
                       pre, last2, pre2, notified, seen, lock, pc, todo, running,
                       server, logged, facade>>

\* the address of the same leg is computed again, std::hash giving the same value
ComputeAddressAgain ==
    /\ last.op = "address"
    /\ Len(delivered) = 1
    /\ delivered' = Append(delivered,
                           Address(delivered[1].id, delivered[1].leg, delivered[1].h))
    /\ UNCHANGED <<node_resources, connection_resources, settings, now, ncalls,
                   last, pre, last2, pre2, notified, seen, lock, pc, todo, running,
                   server, logged, facade>>

AddressNext == ComputeAddress \/ ComputeAddressAgain

AddressSpec == FacadeInit /\ [][AddressNext]_vars

\* C34: whatever the hash of (id, leg) is, the address has first octet 232 and an odd
\* third octet, so it lies in 232.0.1.0 to 232.255.255.255, keeps the second and
\* the fourth octet of the low 32 bits of the hash, and is the same every time it is
\* computed for the same (id, leg)
C34_AddressInLocalSsmBlock ==
    last.op = "address" =>
        \A i \in 1..Len(delivered) :
            LET a == delivered[i].a
                h == delivered[i].h
            IN  /\ a[1] = 232
                /\ a[3] % 2 = 1
                /\ a[3] \in 1..255
                /\ a[3] \in {h[7], h[7] + 1}
                /\ a[2] = h[6] /\ a[4] = h[8]
                /\ \A j \in 1..Len(delivered) :
                       (delivered[j].id = delivered[i].id /\ delivered[j].leg = delivered[i].leg)
                           => delivered[j].a = a

\* reached: the hash has an even third octet and a first octet other than 232, and
\* the address was computed twice
C34_Witness ==
    /\ last.op = "address"
    /\ Len(delivered) = 2
    /\ delivered[1].h[5] = 255
    /\ delivered[1].h[7] = 254
    /\ delivered[2].a = << 232, 0, 255, 1 >>

\* the senders and receivers of the node store
Connections(resources) == IdsOfType(resources, "sender") \cup IdsOfType(resources, "receiver")

\* the configuration recorded for the id is the SDP of the add that made the resource:
\* either the entry was there before the last call and is as it was, or the last call
\* is the successful add of that id and the entry is its SDP
HoldsAddedSdp(configs, before, type, id) ==
    \/ id \in DOMAIN before /\ configs[id] = before[id]
    \/ /\ last.op = (IF type = "sender" THEN "add_sender" ELSE "add_receiver")
       /\ last.ret
       /\ id = make_id(type, last.id)
       /\ configs[id] = last.sdp

\* C35: after any successful or failed add, remove or activate the three registries
\* agree: the connection resources are those of the senders and receivers of the node
\* store, and the keys of settings.senders and settings.receivers are the ids of the
\* senders and of the receivers of the node store, each entry being the SDP the
\* resource was added with
C35_RegistriesAgree ==
    /\ DOMAIN connection_resources = Connections(node_resources)
    /\ \A id \in DOMAIN connection_resources :
           connection_resources[id].type = node_resources[id].type
    /\ DOMAIN settings.senders = IdsOfType(node_resources, "sender")
    /\ DOMAIN settings.receivers = IdsOfType(node_resources, "receiver")
    /\ \A id \in DOMAIN settings.senders :
           /\ settings.senders[id].internal_id = id[2]
           /\ HoldsAddedSdp(settings.senders, pre.settings.senders, "sender", id)
    /\ \A id \in DOMAIN settings.receivers :
           /\ settings.receivers[id].internal_id = id[2]
           /\ HoldsAddedSdp(settings.receivers, pre.settings.receivers, "receiver", id)

\* reached: a failed activate after a remove and an add, a sender and a receiver
\* being registered
C35_Witness ==
    /\ last.op = "activate" /\ ~last.ret
    /\ last2.op \in {"remove_sender", "remove_receiver"} /\ last2.ret
    /\ DOMAIN settings.senders # {}
    /\ DOMAIN settings.receivers # {}
    /\ DOMAIN pre2.connection_resources # DOMAIN connection_resources

\* the staged endpoint and the constraints of every connection resource
StagedEndpoints(resources) ==
    [id \in DOMAIN resources |->
        [endpoint_staged |-> resources[id].data.endpoint_staged,
         endpoint_constraints |-> resources[id].data.endpoint_constraints]]

\* C36: a host-initiated activate, whether it succeeds or fails, leaves the staged
\* endpoint (master_enable, transport_params, transport_file, activation) and the
\* constraints of every connection resource as they were; it writes the active
\* endpoint only
C36_ActivateKeepsStaged ==
    last.op = "activate" =>
        StagedEndpoints(connection_resources) = StagedEndpoints(pre.connection_resources)

\* reached: after an activate the active endpoint is enabled with the parameters of
\* the SDP while the staged endpoint is disabled with other parameters
C36_Witness ==
    /\ last.op = "activate" /\ last.ret /\ last.sdp.kind = "sdp"
    /\ \E id \in DOMAIN connection_resources :
           /\ id[2] = last.id
           /\ connection_resources[id].data.endpoint_active.master_enable
           /\ ~connection_resources[id].data.endpoint_staged.master_enable
           /\ connection_resources[id].data.endpoint_active.transport_params
                  # connection_resources[id].data.endpoint_staged.transport_params
           /\ connection_resources[id].data.endpoint_active
                  # pre.connection_resources[id].data.endpoint_active

\* the last call derived the node clock from its SDP: a successful add_sender, or an
\* activate of a sender with an SDP
DerivedClock ==
    \/ last.op = "add_sender" /\ last.ret
    \/ /\ last.op = "activate" /\ last.ret /\ last.sdp.kind = "sdp"
       /\ has_resource(pre.node_resources, make_id("sender", last.id), "sender")

\* C37: the node clock is that of the last writer: after a successful add_sender or
\* an activate of a sender with an SDP, clk0 is the clock derived from that SDP,
\* whatever the other senders were added with; every other call (add_receiver,
\* activate of a receiver, deactivation, remove, IS-05 activation, failed calls)
\* leaves the clocks as they were
C37_ClockIsLastWriters ==
    IF DerivedClock
    THEN NodeClock(node_resources, "clk0") =
             make_node_clock("clk0", get_session_description_ts_refclks(last.sdp),
                             ptp_domain_number(pre.settings, "clk0")).clock
    ELSE node_resources[node_id].data.clocks = pre.node_resources[node_id].data.clocks

\* reached: a sender without ts-refclk was added while a sender added with a PTP
\* grandmaster is present, and clk0, a PTP clock before, is internal
C37_Witness ==
    /\ last.op = "add_sender" /\ last.ret
    /\ PtpRefs(last.sdp) = {}
    /\ \E id \in DOMAIN settings.senders :
           /\ id # make_id("sender", last.id)
           /\ PtpGmRefs(settings.senders[id]) # {}
    /\ NodeClock(pre.node_resources, "clk0").ref_type = "ptp"
    /\ NodeClock(node_resources, "clk0") = make_internal_clock("clk0")

\* what the last IS-05 activation did to the stores before the handler ran, for the
\* patch it carried
ActivationSet(patch) == connection_activation(pre, Is05Target, patch, now)

\* C38: whatever the host's activation callback returns, after an IS-05 activation
\* the stores are exactly what the activation set (the active endpoint, the
\* transportfile, the versions), the callbacks are the ones the handler made and the
\* notification was made; the log holds the handler's info message and, beyond it, at
\* most the warning of a false return, which needs a callback to have been called
C38_FalseReturnOnlyWarns ==
    last.op \in Is05Ops =>
        /\ \E patch \in Patches :
               /\ Stores = StoresOf(ActivationSet(patch).stores)
               /\ delivered = ActivationSet(patch).callbacks
        /\ notified = 1
        /\ logged \in { << Log("info", "Activating") >>,
                        << Log("info", "Activating"), ActivationFailed >> }
        /\ (delivered = << >>) => (ActivationFailed \notin RangeOf(logged))

\* reached: the host returned false for the activation of a sender, and the sender is
\* active with a transportfile and the version of the activation
C38_Witness ==
    /\ last.op = "is05_activate_sender"
    /\ ActivationFailed \in RangeOf(logged)
    /\ Len(delivered) = 1
    /\ delivered[1].sdp.kind = "sdp"
    /\ connection_resources[Is05Target].data.endpoint_active.master_enable
    /\ ~pre.connection_resources[Is05Target].data.endpoint_active.master_enable
    /\ connection_resources[Is05Target].version = now
    /\ connection_resources[Is05Target].data.endpoint_transportfile #
           pre.connection_resources[Is05Target].data.endpoint_transportfile

\* a sender and a receiver of the internal id of the last call both existed before it
BothExisted ==
    /\ SenderId(last.id) \in DOMAIN pre.node_resources
    /\ ReceiverId(last.id) \in DOMAIN pre.node_resources

\* the receiver of the internal id of the last call is as it was in every store
ReceiverUntouched ==
    /\ node_resources[ReceiverId(last.id)] = pre.node_resources[ReceiverId(last.id)]
    /\ connection_resources[ReceiverId(last.id)] =
           pre.connection_resources[ReceiverId(last.id)]
    /\ settings.receivers[ReceiverId(last.id)] = pre.settings.receivers[ReceiverId(last.id)]

\* C39: an add that succeeds may give a sender the internal id of a receiver or a
\* receiver that of a sender, and then both exist; a host activate for an internal id
\* that a sender and a receiver share leaves the receiver as it was in the node
\* store, the connection store and the settings, and when it returns true the
\* sender's connection resource has the version of this call
C39_SharedIdActivatesSender ==
    /\ (last.op = "add_receiver" /\ last.ret /\ SenderId(last.id) \in DOMAIN pre.node_resources)
           => /\ ReceiverId(last.id) \in DOMAIN node_resources
              /\ node_resources[SenderId(last.id)] = pre.node_resources[SenderId(last.id)]
    /\ (last.op = "add_sender" /\ last.ret /\ ReceiverId(last.id) \in DOMAIN pre.node_resources)
           => /\ SenderId(last.id) \in DOMAIN node_resources
              /\ node_resources[ReceiverId(last.id)] = pre.node_resources[ReceiverId(last.id)]
    /\ (last.op = "activate" /\ BothExisted)
           => /\ ReceiverUntouched
              /\ last.ret => connection_resources[SenderId(last.id)].version = now

\* reached: a receiver was added with the internal id of a sender, and the activate
\* that followed changed the sender's active endpoint
C39_Witness ==
    /\ last2.op = "add_receiver" /\ last2.ret
    /\ SenderId(last2.id) \in DOMAIN pre2.node_resources
    /\ last.op = "activate" /\ last.ret /\ last.id = last2.id /\ last.sdp.kind = "sdp"
    /\ BothExisted
    /\ connection_resources[SenderId(last.id)].data.endpoint_active #
           pre.connection_resources[SenderId(last.id)].data.endpoint_active

====
